---- MODULE Spec2Model ----
(***************************************************************************)
(* Model of marksim's immutable order book (core/order_book.py), its       *)
(* stateless matching engine (core/matching_engine.py), the event queue    *)
(* (core/time_engine.py) and the event handlers of the orchestrator        *)
(* (simulation.py) with the agents' trade callback (agents/base.py), the   *)
(* bounded market data stream and the candle stream                        *)
(* (streaming/data_stream.py), and the agent pools (agents/base.py,        *)
(* agents/batched_pool.py).                                                *)
(*                                                                         *)
(* Spec        calls on the current book: match_order and the book methods *)
(* SpecQueue   orders queued at one price level                            *)
(* SpecEngine  schedule_event and the dispatch of the queued events        *)
(* SpecLoop    AsyncTimeEngine.run step by step, between its awaits, with  *)
(*             schedule_event, pause and resume called meanwhile           *)
(* SpecControl SpecLoop with a time limit, stop and clear_queue            *)
(* SpecControlLive  SpecControl with the run loop taking every step it can *)
(* SpecSim     the orchestrator dispatching wakeup, order and trade events *)
(* SpecSimWide SpecSim with room for one more event in the queue           *)
(* SpecMem     the book operations on the dict objects of the snapshots    *)
(* SpecStream  publishers, subscribers and forwarder tasks of one stream   *)
(* SpecStreamLive  SpecStream with every ready task run eventually         *)
(* SpecCandle  a CandleStream fed with trades                              *)
(* SpecPool    the agent pool under add_agent, remove_agent and wakeups    *)
(*                                                                         *)
(* The tasks of SpecLoop, SpecControl and SpecStream take their steps in   *)
(* any order: the                                                          *)
(* order in which the event loop runs the tasks that are ready is left     *)
(* open.                                                                   *)
(*                                                                         *)
(* Prices and sizes are Decimal in the program; the model uses integers.   *)
(* Optional values (None) are sequences of length 0 or 1, except prices,   *)
(* where NoPrice stands for None.  Order ids are opaque strings in the     *)
(* program; Spec numbers them in order of first use, so that the id        *)
(* next_id is the next unused one and any smaller id is a reuse; SpecSim   *)
(* builds them as the agents do, from agent_id and the market data         *)
(* timestamp.  Order.timestamp, Trade.trade_id and Trade.timestamp never   *)
(* influence the book or the matching and are left out; Order.agent_id is  *)
(* carried by the orders of SpecSim only.                                  *)
(***************************************************************************)
EXTENDS Integers, Sequences, FiniteSets, TLC

\* ------------------------------------------------------------------------
\* Bounds of the model
\* ------------------------------------------------------------------------
MaxOps == 3      \* number of calls made on the book
MaxQueueOps == 4 \* number of orders handled in SpecQueue
MaxPrice == 2    \* limit prices are 1..MaxPrice
MaxSize == 3    \* order sizes are 1..MaxSize

MaxQueueSize == 3 \* AsyncTimeEngine.max_queue_size of the modelled engines
MaxDelay == 1    \* schedule_event is called with delay_us in 0..MaxDelay
MaxScheduleCalls == 6 \* number of schedule_event calls made in SpecEngine

NumAgents == 2   \* number of agents of the simulation
MaxAgentSize == 2 \* the agents' order sizes are 1..MaxAgentSize
MaxEvents == 8   \* number of events the run loop of SpecSim dispatches
SimQueueSize == 2 \* max_queue_size of the orchestrator's engine in SpecSim
SimWideQueueSize == 3 \* max_queue_size of the orchestrator's engine in SpecSimWide

MaxLoopEvents == 2 \* number of schedule_event calls made in SpecLoop
MaxGateCalls == 3 \* number of pause and resume calls made in SpecLoop
NumHandlers == 2 \* handlers registered for the event type in SpecLoop
MaxControlEvents == 2 \* number of schedule_event calls made in SpecControl
MaxControlCalls == 3 \* number of pause, resume, stop and clear_queue calls in SpecControl
MaxControlDelay == 2 \* schedule_event is called with delay_us in 0..MaxControlDelay in SpecControl
MaxUntil == 1    \* run() is called with until_time_us None or in 1..MaxUntil
StreamMaxSize == 2 \* BoundedMarketDataStream.maxsize of the modelled stream
NumSubscribers == 2 \* number of subscribe() calls made on the stream
MaxPublish == 3  \* number of publish calls made in SpecStream

MaxMemOps == 3   \* number of calls made in SpecMem
MaxMemIds == 2   \* order ids of SpecMem are 1..MaxMemIds
MaxMemSize == 2  \* order sizes of SpecMem are 1..MaxMemSize
MaxMemPrice == 1 \* limit prices of SpecMem are 1..MaxMemPrice

NoPrice == 0     \* Optional[Decimal] = None
EndMarker == 0   \* the None put in a subscriber queue as shutdown signal
NoLimit == 0     \* until_time_us: Optional[int] = None
start_time_us == 0                 \* AsyncTimeEngine.start_time_us
agent_wakeup_interval_us == 100000 \* MarketSimulation.agent_wakeup_interval_us

AgentIds == 1..NumAgents

Prices == 1..MaxPrice
Sizes == 1..MaxSize

\* ------------------------------------------------------------------------
\* core/types.py
\* ------------------------------------------------------------------------
Side == {"BUY", "SELL"}
OrderType == {"MARKET", "LIMIT", "STOP_LOSS", "STOP_LIMIT"}
OrderStatus == {"PENDING", "OPEN", "PARTIALLY_FILLED", "FILLED", "CANCELLED", "REJECTED"}
TimeInForce == {"GTC", "IOC", "FOK", "DAY"}

\* Order(...) with the defaults status = PENDING, filled_size = 0
Order(id, side, type, size, price, tif) ==
  [order_id |-> id, side |-> side, order_type |-> type, size |-> size,
   price |-> price, time_in_force |-> tif, status |-> "PENDING", filled_size |-> 0]

\* Order.__post_init__: the orders that can be constructed at all
OrderPostInit(o) ==
  /\ ~(o.order_type = "LIMIT" /\ o.price = NoPrice)
  /\ o.size > 0

Trade(price, size, buy_id, sell_id, aggressor) ==
  [price |-> price, size |-> size, buy_order_id |-> buy_id,
   sell_order_id |-> sell_id, aggressor_side |-> aggressor]

MatchResult(order, trades, remaining, rejected, reason) ==
  [order |-> order, trades |-> trades, remaining_order |-> remaining,
   rejected |-> rejected, rejection_reason |-> reason]

\* ------------------------------------------------------------------------
\* helpers for sorted maps and sums
\* ------------------------------------------------------------------------
MinOf(S) == CHOOSE x \in S : \A y \in S : x <= y
MaxOf(S) == CHOOSE x \in S : \A y \in S : x >= y

\* keys of a SortedDict in ascending order, as a sequence
RECURSIVE SortedKeys(_)
SortedKeys(S) ==
  IF S = {} THEN <<>> ELSE <<MinOf(S)>> \o SortedKeys(S \ {MinOf(S)})

RECURSIVE Reversed(_)
Reversed(s) == IF s = <<>> THEN <<>> ELSE Reversed(Tail(s)) \o <<Head(s)>>

\* dict[key] = value
Put(f, k, v) == [x \in DOMAIN f \cup {k} |-> IF x = k THEN v ELSE f[x]]
\* del dict[key]
Del(f, k) == [x \in DOMAIN f \ {k} |-> f[x]]

RECURSIVE SumSize(_)
SumSize(orders) ==
  IF orders = <<>> THEN 0 ELSE Head(orders).size + SumSize(Tail(orders))

\* ------------------------------------------------------------------------
\* core/order_book.py : PriceLevel
\* ------------------------------------------------------------------------
PriceLevel(price, orders, total) ==
  [price |-> price, orders |-> orders, total_size |-> total]

PriceLevel_add_order(level, order) ==
  PriceLevel(level.price, Append(level.orders, order), level.total_size + order.size)

\* returns (level or None, removed or None)
PriceLevel_remove_order(level, order_id) ==
  LET new_orders == SelectSeq(level.orders, LAMBDA o : o.order_id # order_id)
      hits == SelectSeq(level.orders, LAMBDA o : o.order_id = order_id)
      removed == IF hits = <<>> THEN <<>> ELSE <<Head(hits)>>
  IN IF new_orders = <<>>
     THEN [level |-> <<>>, removed |-> removed]
     ELSE [level |-> <<PriceLevel(level.price, new_orders, SumSize(new_orders))>>,
           removed |-> removed]

\* ------------------------------------------------------------------------
\* core/order_book.py : OrderBookSnapshot and ImmutableOrderBook
\* ------------------------------------------------------------------------
EmptyMap == [x \in {} |-> 0]

\* ImmutableOrderBook.__init__ with snapshot = None
EmptyBook ==
  [bids |-> EmptyMap, asks |-> EmptyMap, orders |-> EmptyMap,
   version |-> 0, last_trade_price |-> NoPrice]

\* OrderBookSnapshot.copy
Snapshot_copy(s) == [s EXCEPT !.version = s.version + 1]

\* a variant of Snapshot_with_trade_price that keeps the version
Snapshot_with_trade_priceKeepsVersion(s, price) ==
  [s EXCEPT !.last_trade_price = price]

\* OrderBookSnapshot.with_trade_price
Snapshot_with_trade_price(s, price) ==
  [s EXCEPT !.version = s.version + 1, !.last_trade_price = price]

best_bid(book) == IF DOMAIN book.bids = {} THEN NoPrice ELSE MaxOf(DOMAIN book.bids)
best_ask(book) == IF DOMAIN book.asks = {} THEN NoPrice ELSE MinOf(DOMAIN book.asks)

\* the side's SortedDict
LevelsOf(book, side) == IF side = "BUY" THEN book.bids ELSE book.asks
WithLevels(book, side, levels) ==
  IF side = "BUY" THEN [book EXCEPT !.bids = levels] ELSE [book EXCEPT !.asks = levels]

AddableStatus == {"PENDING", "OPEN", "PARTIALLY_FILLED"}

\* ImmutableOrderBook.add_order; the call raises ValueError for another status,
\* which yields no new book
Book_add_order(book, order) ==
  IF order.status \notin AddableStatus THEN book
  ELSE
    LET snap == Snapshot_copy(book)
        new_order == [order EXCEPT !.status = "OPEN"]
        withOrder == [snap EXCEPT !.orders = Put(snap.orders, order.order_id, new_order)]
        levels == LevelsOf(withOrder, order.side)
        level == IF order.price \in DOMAIN levels
                 THEN PriceLevel_add_order(levels[order.price], new_order)
                 ELSE PriceLevel(order.price, <<new_order>>, new_order.size)
    IN WithLevels(withOrder, order.side, Put(levels, order.price, level))

\* ImmutableOrderBook.remove_order: (book, removed order or None)
Book_remove_order(book, order_id) ==
  IF order_id \notin DOMAIN book.orders
  THEN [book |-> book, order |-> <<>>]
  ELSE
    LET order == book.orders[order_id]
        snap == Snapshot_copy(book)
        without == [snap EXCEPT !.orders = Del(snap.orders, order_id)]
        levels == LevelsOf(without, order.side)
        res == PriceLevel_remove_order(levels[order.price], order_id)
        new_levels == IF order.price \notin DOMAIN levels THEN levels
                      ELSE IF res.level = <<>> THEN Del(levels, order.price)
                      ELSE Put(levels, order.price, res.level[1])
    IN [book |-> WithLevels(without, order.side, new_levels), order |-> <<order>>]

\* ImmutableOrderBook.update_order
Book_update_order(book, order_id, filled_size, status) ==
  IF order_id \notin DOMAIN book.orders THEN book
  ELSE
    LET order == book.orders[order_id]
        new_book == Book_remove_order(book, order_id).book
        remaining_size == order.size - filled_size
    IN IF status \in {"OPEN", "PARTIALLY_FILLED"} /\ remaining_size > 0
       THEN Book_add_order(new_book,
              [order EXCEPT !.filled_size = filled_size, !.status = status,
                            !.size = remaining_size])
       ELSE new_book

\* ImmutableOrderBook.record_trade
Book_record_trade(book, trade) == Snapshot_with_trade_price(book, trade.price)

\* ------------------------------------------------------------------------
\* core/matching_engine.py
\* ------------------------------------------------------------------------
Min2(a, b) == IF a <= b THEN a ELSE b

\* loop state of a match: new_book, remaining_size, trades; passives records,
\* for each trade, the passive order object the loop was looking at
MatchAcc(book, remaining, trades, passives) ==
  [book |-> book, remaining |-> remaining, trades |-> trades, passives |-> passives]

Rejected(book, order, reason) ==
  [book |-> book, result |-> MatchResult(order, <<>>, <<>>, TRUE, reason),
   passives |-> <<>>]

\* body of the inner loop of _match_market_order: one passive order
MarketMatchPassive(acc, order, price, passive) ==
  LET match_size == Min2(acc.remaining, passive.size - passive.filled_size)
      trade == Trade(price, match_size,
                     IF order.side = "BUY" THEN order.order_id ELSE passive.order_id,
                     IF order.side = "SELL" THEN passive.order_id ELSE order.order_id,
                     order.side)
      passive_filled == passive.filled_size + match_size
      passive_status == IF passive_filled >= passive.size THEN "FILLED"
                        ELSE "PARTIALLY_FILLED"
      updated == Book_update_order(acc.book, passive.order_id, passive_filled, passive_status)
  IN MatchAcc(Book_record_trade(updated, trade), acc.remaining - match_size,
              Append(acc.trades, trade), Append(acc.passives, passive))

\* for passive_order in level.orders (market)
RECURSIVE MarketMatchLevel(_, _, _, _)
MarketMatchLevel(acc, order, price, orders) ==
  IF orders = <<>> \/ acc.remaining <= 0 THEN acc
  ELSE MarketMatchLevel(MarketMatchPassive(acc, order, price, Head(orders)),
                        order, price, Tail(orders))

\* for price in level_prices (market): the level is read from new_book
RECURSIVE MarketMatchLevels(_, _, _)
MarketMatchLevels(acc, order, level_prices) ==
  IF level_prices = <<>> \/ acc.remaining <= 0 THEN acc
  ELSE
    LET price == Head(level_prices)
        current == LevelsOf(acc.book, IF order.side = "BUY" THEN "SELL" ELSE "BUY")
    IN IF price \notin DOMAIN current
       THEN MarketMatchLevels(acc, order, Tail(level_prices))
       ELSE MarketMatchLevels(
              MarketMatchLevel(acc, order, price, current[price].orders),
              order, Tail(level_prices))

\* a variant of MarketFokReject that returns the book the fills were applied to
MarketFokRejectKeepsFills(book, acc, order) ==
  Rejected(acc.book, order, "FOK not fully filled")

\* _match_market_order, FOK not fully filled: the input book, no trades
MarketFokReject(book, acc, order) ==
  Rejected(book, order, "FOK not fully filled")

\* best price of the side an order matches against
best_price_of_opposite(order, book) ==
  IF order.side = "BUY" THEN best_ask(book) ELSE best_bid(book)

\* the two loops of _match_market_order, from the state before the first level
MarketLoop(order, book) ==
  LET levels == IF order.side = "BUY" THEN book.asks ELSE book.bids
      level_prices == IF order.side = "BUY" THEN SortedKeys(DOMAIN levels)
                      ELSE Reversed(SortedKeys(DOMAIN levels))
  IN MarketMatchLevels(MatchAcc(book, order.size, <<>>, <<>>), order, level_prices)

\* MatchingEngine._match_market_order
match_market_order(order, book) ==
  LET levels == IF order.side = "BUY" THEN book.asks ELSE book.bids
      best_price == IF order.side = "BUY" THEN best_ask(book) ELSE best_bid(book)
      acc == MarketLoop(order, book)
      remaining_size == acc.remaining
      filled_size == order.size - remaining_size
      updated_order == [order EXCEPT !.filled_size = filled_size,
                          !.status = IF remaining_size = 0 THEN "FILLED"
                                     ELSE "PARTIALLY_FILLED"]
      remaining_order == IF order.time_in_force = "IOC" THEN <<>>
                         ELSE IF remaining_size > 0
                              THEN <<[order EXCEPT !.size = remaining_size]>>
                              ELSE <<>>
  IN IF DOMAIN levels = {} \/ best_price = NoPrice
     THEN Rejected(book, order, "No liquidity")
     ELSE IF order.time_in_force = "FOK" /\ remaining_size > 0
     THEN MarketFokReject(book, acc, order)
     ELSE [book |-> acc.book,
           result |-> MatchResult(updated_order, acc.trades, remaining_order, FALSE, ""),
           passives |-> acc.passives]

\* a variant of LimitMatchPassive that trades at the aggressor's limit price
LimitMatchPassiveAtLimitPrice(acc, order, price, passive) ==
  LET match_size == Min2(acc.remaining, passive.size - passive.filled_size)
      trade == Trade(order.price, match_size,
                     IF order.side = "BUY" THEN order.order_id ELSE passive.order_id,
                     IF order.side = "SELL" THEN passive.order_id ELSE order.order_id,
                     order.side)
      passive_filled == passive.filled_size + match_size
      passive_status == IF passive_filled >= passive.size THEN "FILLED"
                        ELSE "PARTIALLY_FILLED"
      updated == Book_update_order(acc.book, passive.order_id, passive_filled, passive_status)
  IN MatchAcc(Book_record_trade(updated, trade), acc.remaining - match_size,
              Append(acc.trades, trade), Append(acc.passives, passive))

\* body of the inner loop of _match_limit_order: one passive order
LimitMatchPassive(acc, order, price, passive) ==
  LET match_size == Min2(acc.remaining, passive.size - passive.filled_size)
      trade == Trade(price, match_size,
                     IF order.side = "BUY" THEN order.order_id ELSE passive.order_id,
                     IF order.side = "SELL" THEN passive.order_id ELSE order.order_id,
                     order.side)
      passive_filled == passive.filled_size + match_size
      passive_status == IF passive_filled >= passive.size THEN "FILLED"
                        ELSE "PARTIALLY_FILLED"
      updated == Book_update_order(acc.book, passive.order_id, passive_filled, passive_status)
  IN MatchAcc(Book_record_trade(updated, trade), acc.remaining - match_size,
              Append(acc.trades, trade), Append(acc.passives, passive))

\* for passive_order in level.orders (limit)
RECURSIVE LimitMatchLevel(_, _, _, _)
LimitMatchLevel(acc, order, price, orders) ==
  IF orders = <<>> \/ acc.remaining <= 0 THEN acc
  ELSE LimitMatchLevel(LimitMatchPassive(acc, order, price, Head(orders)),
                       order, price, Tail(orders))

\* for price, level in levels (limit): the levels are those of the input book
RECURSIVE LimitMatchLevels(_, _, _, _)
LimitMatchLevels(acc, order, level_prices, levels) ==
  IF level_prices = <<>> \/ acc.remaining <= 0 THEN acc
  ELSE LimitMatchLevels(
         LimitMatchLevel(acc, order, Head(level_prices), levels[Head(level_prices)].orders),
         order, Tail(level_prices), levels)

\* the matchable levels of a crossing limit order, best first
LimitLevelPrices(order, book) ==
  IF order.side = "BUY"
  THEN SortedKeys({p \in DOMAIN book.asks : p <= order.price})
  ELSE Reversed(SortedKeys({p \in DOMAIN book.bids : p >= order.price}))

\* a variant of LimitFokReject that returns the book the fills were applied to
LimitFokRejectKeepsFills(book, acc, order) ==
  Rejected(acc.book, order, "FOK not fully filled")

\* _match_limit_order, FOK not fully filled: the input book, no trades
LimitFokReject(book, acc, order) ==
  Rejected(book, order, "FOK not fully filled")

\* _match_limit_order, GTC and DAY: post the remaining size to the book
LimitPostResult(acc, order) ==
  LET remaining_size == acc.remaining
      filled_size == order.size - remaining_size
      remaining_order == [order EXCEPT !.size = remaining_size,
                            !.filled_size = filled_size,
                            !.status = IF filled_size > 0 THEN "PARTIALLY_FILLED"
                                       ELSE "OPEN"]
  IN [book |-> IF remaining_size > 0 THEN Book_add_order(acc.book, remaining_order)
               ELSE acc.book,
      result |-> MatchResult(
        [order EXCEPT !.filled_size = filled_size,
           !.status = IF remaining_size = 0 THEN "FILLED" ELSE "PARTIALLY_FILLED"],
        acc.trades,
        IF remaining_size > 0 THEN <<remaining_order>> ELSE <<>>, FALSE, ""),
      passives |-> acc.passives]

\* a variant of LimitIocResult without the IOC branch: the remainder is posted
LimitIocResultPostsRemainder(acc, order) == LimitPostResult(acc, order)

\* _match_limit_order, IOC: the remainder is not posted
LimitIocResult(acc, order) ==
  LET remaining_size == acc.remaining
      filled_size == order.size - remaining_size
  IN [book |-> acc.book,
      result |-> MatchResult(
        [order EXCEPT !.filled_size = filled_size,
           !.status = IF remaining_size = 0 THEN "FILLED" ELSE "CANCELLED"],
        acc.trades, <<>>, FALSE, ""),
      passives |-> acc.passives]

\* the crossing part of _match_limit_order, from the state before it
LimitLoop(order, book) ==
  LET crosses_spread ==
        IF order.side = "BUY"
        THEN best_ask(book) # NoPrice /\ order.price >= best_ask(book)
        ELSE best_bid(book) # NoPrice /\ order.price <= best_bid(book)
      start == MatchAcc(book, order.size, <<>>, <<>>)
  IN IF crosses_spread
     THEN LimitMatchLevels(start, order, LimitLevelPrices(order, book),
                           IF order.side = "BUY" THEN book.asks ELSE book.bids)
     ELSE start

\* MatchingEngine._match_limit_order
match_limit_order(order, book) ==
  LET acc == LimitLoop(order, book)
  IN IF order.price = NoPrice
     THEN Rejected(book, order, "Limit order must have price")
     ELSE IF order.time_in_force = "FOK" /\ acc.remaining > 0
     THEN LimitFokReject(book, acc, order)
     ELSE IF order.time_in_force = "IOC"
     THEN LimitIocResult(acc, order)
     ELSE LimitPostResult(acc, order)

\* MatchingEngine.match_order
match_order(order, book) ==
  IF order.size <= 0 THEN Rejected(book, order, "Invalid size")
  ELSE IF order.order_type = "MARKET" THEN match_market_order(order, book)
  ELSE IF order.order_type = "LIMIT" THEN match_limit_order(order, book)
  ELSE Rejected(book, order, "Unsupported order type")

\* a variant of cancel_order that returns the removed order as it was stored
cancel_orderKeepsStatus(order_id, book) ==
  LET res == Book_remove_order(book, order_id)
  IN [book |-> res.book, cancelled |-> res.order]

\* MatchingEngine.cancel_order: (new_book, cancelled order or None)
cancel_order(order_id, book) ==
  LET res == Book_remove_order(book, order_id)
  IN [book |-> res.book,
      cancelled |-> IF res.order = <<>> THEN <<>>
                    ELSE <<[res.order[1] EXCEPT !.status = "CANCELLED"]>>]

\* ------------------------------------------------------------------------
\* core/time_engine.py
\* ------------------------------------------------------------------------
\* Event and its subclasses: kind is the class, payload the field the subclass
\* adds (order, trade, agent_id), as a sequence of length 0 or 1
Event(kind, timestamp, priority, payload) ==
  [kind |-> kind, timestamp |-> timestamp, priority |-> priority, payload |-> payload]

TimeEngineStats ==
  [events_processed |-> 0, events_scheduled |-> 0, events_dropped |-> 0]

\* AsyncTimeEngine.__init__; _event_queue holds the tuples
\* (timestamp, priority, counter, event) of the heap, as a set
AsyncTimeEngine(start_us, max_queue_size) ==
  [current_time_us |-> start_us, max_queue_size |-> max_queue_size,
   event_queue |-> {}, event_counter |-> 0, stats |-> TimeEngineStats]

\* a variant of schedule_event that drops only when the queue is over capacity
schedule_eventWhenOverCapacity(engine, event, delay_us) ==
  IF Cardinality(engine.event_queue) > engine.max_queue_size
  THEN [engine |-> [engine EXCEPT !.stats.events_dropped = @ + 1],
        returned |-> FALSE]
  ELSE [engine |->
          [engine EXCEPT
             !.event_queue = @ \cup {<<engine.current_time_us + delay_us,
                                       event.priority, engine.event_counter, event>>},
             !.event_counter = @ + 1,
             !.stats.events_scheduled = @ + 1],
        returned |-> TRUE]

\* AsyncTimeEngine.schedule_event: (engine afterwards, returned value)
schedule_event(engine, event, delay_us) ==
  IF Cardinality(engine.event_queue) >= engine.max_queue_size
  THEN [engine |-> [engine EXCEPT !.stats.events_dropped = @ + 1],
        returned |-> FALSE]
  ELSE [engine |->
          [engine EXCEPT
             !.event_queue = @ \cup {<<engine.current_time_us + delay_us,
                                       event.priority, engine.event_counter, event>>},
             !.event_counter = @ + 1,
             !.stats.events_scheduled = @ + 1],
        returned |-> TRUE]

\* a variant of EntryLess for entries (timestamp, counter, event)
EntryLessWithoutPriority(a, b) ==
  \/ a[1] < b[1]
  \/ a[1] = b[1] /\ a[3] < b[3]

\* tuple order of the heap entries; the counter is unique, so the events
\* themselves are never compared
EntryLess(a, b) ==
  \/ a[1] < b[1]
  \/ a[1] = b[1] /\ a[2] < b[2]
  \/ a[1] = b[1] /\ a[2] = b[2] /\ a[3] < b[3]

\* heapq.heappop: the least entry of the queue
HeapMin(queue) == CHOOSE a \in queue : \A b \in queue \ {a} : EntryLess(a, b)

\* one iteration of AsyncTimeEngine.run up to the dispatch: pop the next event
\* and advance the time to its timestamp
PopNext(engine) ==
  LET entry == HeapMin(engine.event_queue)
  IN [engine |-> [engine EXCEPT !.event_queue = @ \ {entry},
                                !.current_time_us = entry[1]],
      event |-> entry[4]]

\* the end of the iteration: update stats after the dispatch
Processed(engine) == [engine EXCEPT !.stats.events_processed = @ + 1]

\* The task that runs AsyncTimeEngine.run, between two of its suspension
\* points.  pc is the point it is at:
\*   "init"         run() was not called yet
\*   "top"          at the while test of an iteration (no suspension here)
\*   "waiting"      suspended in await self._paused.wait()
\*   "sleeping"     an event is popped, suspended in asyncio.sleep before the
\*                  time is advanced
\*   "dispatching"  suspended in asyncio.gather over the handlers
\*   "done"         the loop has ended on an empty queue
\*   "failed"       run() has raised
\* paused_is_set is the asyncio.Event _paused (set = resumed); woken says that
\* the future the loop waits on was resolved by a set(); popped is the heap
\* entry taken last, with the gate and the event counter read at the pop;
\* pending, ran and raised are the handlers of the event still to run, those
\* that have ended and those that ended by raising; dispatched lists the
\* events dispatched so far.  named are the registered handlers that have a
\* __name__ attribute (functions and bound methods have one, callable objects
\* and functools.partial objects have none).  running is the flag _running,
\* until_time_us the argument of run() (NoLimit for None), error the
\* exception run() has raised, stopped says that stop() was called.
RunLoop(speed_multiplier, named) ==
  [pc |-> "init", paused_is_set |-> TRUE, woken |-> FALSE,
   speed_multiplier |-> speed_multiplier, named |-> named, popped |-> <<>>,
   pending |-> {}, ran |-> {}, raised |-> {}, dispatched |-> <<>>,
   running |-> FALSE, until_time_us |-> NoLimit, error |-> "", stopped |-> FALSE]

\* AsyncTimeEngine.stop
stop(loop) == [loop EXCEPT !.running = FALSE, !.stopped = TRUE]

\* AsyncTimeEngine.clear_queue
clear_queue(engine) == [engine EXCEPT !.event_queue = {}]

\* run, lines 177-180: the flag is set and the loop entered
LoopStart(loop, until_time_us) ==
  [loop EXCEPT !.pc = "top", !.running = TRUE, !.until_time_us = until_time_us]

\* run, lines 221-222: the loop is left by break or by a false while test
LoopEnd(loop) == [loop EXCEPT !.pc = "done", !.running = FALSE]

\* run, lines 218-222: an exception leaves run()
LoopRaise(loop, error) ==
  [loop EXCEPT !.pc = "failed", !.running = FALSE, !.error = error]

\* AsyncTimeEngine.pause: asyncio.Event.clear
pause(loop) == [loop EXCEPT !.paused_is_set = FALSE]

\* AsyncTimeEngine.resume: asyncio.Event.set resolves the futures of the
\* waiters; a later clear does not take that back
resume(loop) ==
  [loop EXCEPT !.paused_is_set = TRUE,
               !.woken = (@ \/ loop.pc = "waiting")]

\* run, lines 200-204: advance the time to the popped timestamp and start the
\* handlers registered for the event
LoopAdvance(engine, loop) ==
  [engine |-> [engine EXCEPT !.current_time_us = loop.popped[1].entry[1]],
   loop |-> [loop EXCEPT !.pc = "dispatching",
                         !.popped = <<[@[1] EXCEPT !.time = loop.popped[1].entry[1]]>>,
                         !.pending = 1..NumHandlers, !.ran = {}, !.raised = {}]]

\* run, lines 190-198: heappop, then sleep when the speed is limited and the
\* event lies ahead of the current time
LoopPop(engine, loop) ==
  LET entry == HeapMin(engine.event_queue)
      engine1 == [engine EXCEPT !.event_queue = @ \ {entry}]
      loop1 == [loop EXCEPT !.popped = <<[entry |-> entry,
                                          time |-> engine.current_time_us,
                                          gate |-> loop.paused_is_set,
                                          event_counter |-> engine.event_counter]>>]
  IN IF loop.speed_multiplier > 0 /\ entry[1] - engine.current_time_us > 0
     THEN [engine |-> engine1, loop |-> [loop1 EXCEPT !.pc = "sleeping"]]
     ELSE LoopAdvance(engine1, loop1)

\* run, lines 185-191: after the pause gate, the time limit is tested (a
\* limit of 0 counts as none) and the next event popped; heappop raises
\* IndexError on an empty queue
LoopGatePassed(engine, loop) ==
  IF loop.until_time_us # NoLimit /\ engine.current_time_us >= loop.until_time_us
  THEN [engine |-> engine, loop |-> LoopEnd(loop)]
  ELSE IF engine.event_queue = {}
  THEN [engine |-> engine, loop |-> LoopRaise(loop, "IndexError")]
  ELSE LoopPop(engine, loop)

\* run, lines 181-183: the while test and the pause gate
LoopTop(engine, loop) ==
  IF ~loop.running \/ engine.event_queue = {}
  THEN [engine |-> engine, loop |-> LoopEnd(loop)]
  ELSE IF ~loop.paused_is_set
  THEN [engine |-> engine, loop |-> [loop EXCEPT !.pc = "waiting", !.woken = FALSE]]
  ELSE LoopGatePassed(engine, loop)

\* _dispatch_event, lines 157-158: one handler task ends, by returning or by
\* raising; gather(return_exceptions=True) keeps the exception as a result
HandlerDone(loop, handler, raises) ==
  [loop EXCEPT !.pending = @ \ {handler},
               !.ran = @ \cup {handler},
               !.raised = IF raises THEN @ \cup {handler} ELSE @]

\* _dispatch_event, lines 161-166, and run, lines 206-220: gather has
\* returned; each exception among the results is logged under
\* handlers[i].__name__, an AttributeError there leaves _dispatch_event and
\* run; otherwise the event is counted
LoopDispatched(engine, loop) ==
  IF ~(loop.raised \subseteq loop.named)
  THEN [engine |-> engine, loop |-> LoopRaise(loop, "AttributeError")]
  ELSE
  [engine |-> Processed(engine),
   loop |-> [loop EXCEPT !.pc = "top",
                         !.dispatched = Append(@, loop.popped[1] @@
                                                  [ran |-> loop.ran,
                                                   raised |-> loop.raised])]]

\* ------------------------------------------------------------------------
\* the dict objects of the snapshots
\* ------------------------------------------------------------------------
\* The program's snapshots hold references to SortedDict and dict objects.
\* heap is the sequence of these objects, a reference is an index in it, and a
\* snapshot is the record of its three references and its two plain fields.
BookOf(heap, snap) ==
  [bids |-> heap[snap.bids], asks |-> heap[snap.asks], orders |-> heap[snap.orders],
   version |-> snap.version, last_trade_price |-> snap.last_trade_price]

\* ImmutableOrderBook.__init__ with snapshot = None: three new objects; books
\* lists the books returned so far, each with the value it had when returned
InitialMem ==
  [heap |-> <<EmptyMap, EmptyMap, EmptyMap>>,
   books |-> <<[snap |-> [bids |-> 1, asks |-> 2, orders |-> 3,
                          version |-> 0, last_trade_price |-> NoPrice],
                was |-> EmptyBook, from |-> 0, op |-> "init"]>>]

\* a variant of Mem_copy that keeps the references of the original
Mem_copyShares(heap, snap) ==
  [heap |-> heap, snap |-> [snap EXCEPT !.version = @ + 1]]

\* OrderBookSnapshot.copy: three new objects with the entries of the old ones
Mem_copy(heap, snap) ==
  [heap |-> heap \o <<heap[snap.bids], heap[snap.asks], heap[snap.orders]>>,
   snap |-> [snap EXCEPT !.bids = Len(heap) + 1, !.asks = Len(heap) + 2,
                         !.orders = Len(heap) + 3, !.version = @ + 1]]

\* OrderBookSnapshot.with_trade_price: the references are shared
Mem_with_trade_price(heap, snap, price) ==
  [heap |-> heap,
   snap |-> [snap EXCEPT !.version = @ + 1, !.last_trade_price = price]]

\* the reference of the side's SortedDict
LevelsRef(snap, side) == IF side = "BUY" THEN snap.bids ELSE snap.asks

\* ImmutableOrderBook.add_order on references: the copy is written in place
Mem_add_order(heap, snap, order) ==
  IF order.status \notin AddableStatus THEN [heap |-> heap, snap |-> snap]
  ELSE
    LET c == Mem_copy(heap, snap)
        new_order == [order EXCEPT !.status = "OPEN"]
        ref == LevelsRef(c.snap, order.side)
        heap1 == [c.heap EXCEPT ![c.snap.orders] = Put(@, order.order_id, new_order)]
        levels == heap1[ref]
        level == IF order.price \in DOMAIN levels
                 THEN PriceLevel_add_order(levels[order.price], new_order)
                 ELSE PriceLevel(order.price, <<new_order>>, new_order.size)
    IN [heap |-> [heap1 EXCEPT ![ref] = Put(@, order.price, level)],
        snap |-> c.snap]

\* ImmutableOrderBook.remove_order on references
Mem_remove_order(heap, snap, order_id) ==
  IF order_id \notin DOMAIN heap[snap.orders] THEN [heap |-> heap, snap |-> snap]
  ELSE
    LET order == heap[snap.orders][order_id]
        c == Mem_copy(heap, snap)
        ref == LevelsRef(c.snap, order.side)
        heap1 == [c.heap EXCEPT ![c.snap.orders] = Del(@, order_id)]
        levels == heap1[ref]
        res == PriceLevel_remove_order(levels[order.price], order_id)
    IN [heap |-> IF order.price \notin DOMAIN levels THEN heap1
                 ELSE IF res.level = <<>>
                 THEN [heap1 EXCEPT ![ref] = Del(@, order.price)]
                 ELSE [heap1 EXCEPT ![ref] = Put(@, order.price, res.level[1])],
        snap |-> c.snap]

\* ImmutableOrderBook.update_order on references
Mem_update_order(heap, snap, order_id, filled_size, status) ==
  IF order_id \notin DOMAIN heap[snap.orders] THEN [heap |-> heap, snap |-> snap]
  ELSE
    LET order == heap[snap.orders][order_id]
        removed == Mem_remove_order(heap, snap, order_id)
        remaining_size == order.size - filled_size
    IN IF status \in {"OPEN", "PARTIALLY_FILLED"} /\ remaining_size > 0
       THEN Mem_add_order(removed.heap, removed.snap,
              [order EXCEPT !.filled_size = filled_size, !.status = status,
                            !.size = remaining_size])
       ELSE removed

\* ImmutableOrderBook.record_trade on references
Mem_record_trade(heap, snap, trade) == Mem_with_trade_price(heap, snap, trade.price)

\* The calls match_order makes on the book, in order: update_order and
\* record_trade for each passive order it matches, then add_order for the
\* remainder of a limit order that is posted.  The engine reads the book
\* otherwise.
RECURSIVE LoopCalls(_, _)
LoopCalls(passives, trades) ==
  IF passives = <<>> THEN <<>>
  ELSE LET passive == Head(passives)
           trade == Head(trades)
           passive_filled == passive.filled_size + trade.size
       IN << [op |-> "update_order", order_id |-> passive.order_id,
              filled_size |-> passive_filled,
              status |-> IF passive_filled >= passive.size THEN "FILLED"
                         ELSE "PARTIALLY_FILLED"],
             [op |-> "record_trade", trade |-> trade] >>
          \o LoopCalls(Tail(passives), Tail(trades))

MatchCalls(order, book) ==
  IF order.size <= 0 THEN <<>>
  ELSE IF order.order_type = "LIMIT" /\ order.price = NoPrice THEN <<>>
  ELSE IF order.order_type = "MARKET"
  THEN IF best_price_of_opposite(order, book) = NoPrice THEN <<>>
       ELSE LET acc == MarketLoop(order, book)
            IN LoopCalls(acc.passives, acc.trades)
  ELSE IF order.order_type = "LIMIT"
  THEN LET acc == LimitLoop(order, book)
           posted == LimitPostResult(acc, order).result.remaining_order
       IN LoopCalls(acc.passives, acc.trades)
          \o IF order.time_in_force \in {"GTC", "DAY"} /\ posted # <<>>
             THEN << [op |-> "add_order", order |-> posted[1]] >>
             ELSE <<>>
  ELSE <<>>

\* the calls of a list made one after the other, each on the book the
\* previous one returned
RECURSIVE Mem_calls(_, _, _)
Mem_calls(heap, snap, calls) ==
  IF calls = <<>> THEN [heap |-> heap, snap |-> snap]
  ELSE LET call == Head(calls)
           r == IF call.op = "update_order"
                THEN Mem_update_order(heap, snap, call.order_id,
                                      call.filled_size, call.status)
                ELSE IF call.op = "record_trade"
                THEN Mem_record_trade(heap, snap, call.trade)
                ELSE Mem_add_order(heap, snap, call.order)
       IN Mem_calls(r.heap, r.snap, Tail(calls))

\* MatchingEngine.match_order on references: a rejected order returns the book
\* object it was given, every other order the last book of its calls
Mem_match_order(heap, snap, order) ==
  LET book == BookOf(heap, snap)
      r == Mem_calls(heap, snap, MatchCalls(order, book))
  IN [heap |-> r.heap,
      snap |-> IF match_order(order, book).result.rejected THEN snap ELSE r.snap]

\* MatchingEngine.cancel_order on references
Mem_cancel_order(heap, snap, order_id) == Mem_remove_order(heap, snap, order_id)

\* ------------------------------------------------------------------------
\* streaming/data_stream.py
\* ------------------------------------------------------------------------
\* Messages are numbered by the publish call that carries them; EndMarker
\* stands for the None that ends a subscription.
StreamStats == [messages_published |-> 0, messages_dropped |-> 0]

\* A subscribe() call: the async generator with its subscriber queue and the
\* task of _forward_to_subscriber it starts.
\*   state      "new" (not iterated yet), "reading" (in the while loop),
\*              "ended" (the generator has left the loop and cleaned up)
\*   queue      subscriber_queue
\*   received   the items yielded so far
\*   since      the number of publish calls made before the subscription
\*   forwarder  "none", "waiting" (in await self._queue.get()), "holding"
\*              (in wait_for(subscriber_queue.put(data))), "ended"
\*   held       the item the forwarder holds
\*   missed     the items the forwarder gave up on a full subscriber queue
Subscription ==
  [state |-> "new", queue |-> <<>>, received |-> <<>>, since |-> 0,
   forwarder |-> "none", held |-> 0, missed |-> {}]

\* BoundedMarketDataStream.__init__: the main queue and no subscriber; calls
\* counts the publish calls, rejected holds the messages whose publish
\* returned False, subscriptions are the subscribe() calls of the consumers,
\* closed holds the set _subscribers that close() has notified
BoundedMarketDataStream(maxsize) ==
  [maxsize |-> maxsize, queue |-> <<>>, stats |-> StreamStats,
   subscribers |-> {}, calls |-> 0, rejected |-> {},
   subscriptions |-> [sub \in 1..NumSubscribers |-> Subscription],
   closed |-> <<>>]

\* a variant of publish that makes room by giving up the oldest queued item
publishDropsOldest(st, data) ==
  IF Len(st.queue) < st.maxsize
  THEN [stream |-> [st EXCEPT !.queue = Append(@, data),
                              !.stats.messages_published = @ + 1,
                              !.calls = @ + 1],
        returned |-> TRUE]
  ELSE [stream |-> [st EXCEPT !.queue = Append(Tail(@), data),
                              !.stats.messages_dropped = @ + 1,
                              !.calls = @ + 1,
                              !.rejected = @ \cup {data}],
        returned |-> FALSE]

\* BoundedMarketDataStream.publish and publish_nowait: (stream afterwards,
\* returned value).  publish waits up to drop_timeout for room; room made by
\* a forwarder within that time is that forwarder's step taken first.
publish(st, data) ==
  IF Len(st.queue) < st.maxsize
  THEN [stream |-> [st EXCEPT !.queue = Append(@, data),
                              !.stats.messages_published = @ + 1,
                              !.calls = @ + 1],
        returned |-> TRUE]
  ELSE [stream |-> [st EXCEPT !.stats.messages_dropped = @ + 1,
                              !.calls = @ + 1,
                              !.rejected = @ \cup {data}],
        returned |-> FALSE]

\* subscribe, lines 122-136: the generator starts: a new queue, registered in
\* _subscribers, the forwarder task created, then the first get
subscribe(st, sub) ==
  [st EXCEPT !.subscribers = @ \cup {sub},
             !.subscriptions[sub] =
               [Subscription EXCEPT !.state = "reading", !.since = st.calls,
                                    !.forwarder = "waiting"]]

\* _forward_to_subscriber, line 151: the forwarder takes the next item of the
\* main queue
forward_get(st, sub) ==
  [st EXCEPT !.queue = Tail(@),
             !.subscriptions[sub].forwarder = "holding",
             !.subscriptions[sub].held = Head(st.queue)]

\* a variant of forward_put that puts the item in front of the queued ones
forward_putInFront(st, sub) ==
  LET own == st.subscriptions[sub]
  IN IF Len(own.queue) < st.maxsize
     THEN [st EXCEPT !.subscriptions[sub].queue = <<own.held>> \o @,
                     !.subscriptions[sub].forwarder = "waiting",
                     !.subscriptions[sub].held = 0]
     ELSE [st EXCEPT !.subscriptions[sub].missed = @ \cup {own.held},
                     !.subscriptions[sub].forwarder = "waiting",
                     !.subscriptions[sub].held = 0]

\* _forward_to_subscriber, lines 154-161: put the item in the subscriber
\* queue, or give it up when the queue is still full after the timeout
forward_put(st, sub) ==
  LET own == st.subscriptions[sub]
  IN IF Len(own.queue) < st.maxsize
     THEN [st EXCEPT !.subscriptions[sub].queue = Append(@, own.held),
                     !.subscriptions[sub].forwarder = "waiting",
                     !.subscriptions[sub].held = 0]
     ELSE [st EXCEPT !.subscriptions[sub].missed = @ \cup {own.held},
                     !.subscriptions[sub].forwarder = "waiting",
                     !.subscriptions[sub].held = 0]

\* subscribe, lines 136-145, and _forward_to_subscriber, lines 163-169: the
\* generator takes the next item of its queue; on the end marker it leaves
\* the loop, cancels its forwarder (which puts an end marker in the queue if
\* there is room, and gives up the item it holds) and leaves _subscribers
subscriber_get(st, sub) ==
  LET own == st.subscriptions[sub]
      data == Head(own.queue)
  IN IF data = EndMarker
     THEN [st EXCEPT !.subscribers = @ \ {sub},
                     !.subscriptions[sub].state = "ended",
                     !.subscriptions[sub].queue =
                        IF own.forwarder = "ended" THEN Tail(@)
                        ELSE Append(Tail(@), EndMarker),
                     !.subscriptions[sub].forwarder = "ended",
                     !.subscriptions[sub].missed =
                        IF own.forwarder = "holding" THEN @ \cup {own.held}
                        ELSE @,
                     !.subscriptions[sub].held = 0]
     ELSE [st EXCEPT !.subscriptions[sub].queue = Tail(@),
                     !.subscriptions[sub].received = Append(@, data)]

\* put_nowait(None) of close on one subscriber queue, QueueFull ignored
RECURSIVE NotifyAll(_, _)
NotifyAll(st, subs) ==
  IF subs = {} THEN st
  ELSE LET sub == CHOOSE x \in subs : TRUE
           next == IF Len(st.subscriptions[sub].queue) < st.maxsize
                   THEN [st EXCEPT !.subscriptions[sub].queue = Append(@, EndMarker)]
                   ELSE st
       IN NotifyAll(next, subs \ {sub})

\* BoundedMarketDataStream.close
close(st) ==
  [NotifyAll(st, st.subscribers) EXCEPT !.subscribers = {},
                                        !.closed = <<st.subscribers>>]

\* ------------------------------------------------------------------------
\* streaming/data_stream.py: CandleStream
\* ------------------------------------------------------------------------
\* A timestamp is a number of microseconds that does not fit the integers of
\* the model checker; it is kept as its two digits in base 1000000: s
\* seconds and us microseconds, 0 <= us < 1000000.  A timeframe tag such as
\* '5s' is kept as its value 5 and its unit "s" (tf[:-1] and tf[-1]).
Time(s, us) == [s |-> s, us |-> us]

Tag(value, unit) == [value |-> value, unit |-> unit]

\* a // b of Python, for b > 0
FloorDiv(a, b) == IF a >= 0 THEN a \div b ELSE -((-a + b - 1) \div b)

\* CandleStream._parse_timeframe: the interval in seconds
parse_timeframe(tf) ==
  tf.value * (CASE tf.unit = "s" -> 1
                [] tf.unit = "m" -> 60
                [] tf.unit = "h" -> 3600
                [] tf.unit = "d" -> 86400
                [] OTHER -> 60)

\* CandleStream._get_candle_start_time
get_candle_start_time(timestamp_us, tf) ==
  LET interval_seconds == parse_timeframe(tf)
  IN IF tf.unit = "s"
     THEN LET seconds == timestamp_us.s
              aligned_seconds == (seconds \div interval_seconds) * interval_seconds
          IN Time(aligned_seconds, 0)
     ELSE LET minutes == timestamp_us.s \div 60
              aligned_minutes == (minutes \div interval_seconds) * interval_seconds
          IN Time(aligned_minutes * 60, 0)

\* CandleStream._update_throttle_ms: <<>> for a tag that is not a key
update_throttle_ms(tf) ==
  IF tf.unit # "s" THEN <<>>
  ELSE CASE tf.value = 1 -> <<100>>
         [] tf.value = 3 -> <<200>>
         [] tf.value = 5 -> <<300>>
         [] tf.value = 10 -> <<500>>
         [] tf.value = 15 -> <<750>>
         [] tf.value = 30 -> <<1000>>
         [] OTHER -> <<>>

\* CandleStream._should_update_candle
should_update_candle(tf, last_update, timestamp_us) ==
  IF update_throttle_ms(tf) = <<>> THEN TRUE
  ELSE LET throttle_ms == update_throttle_ms(tf)[1]
           time_since_last_ms ==
             (timestamp_us.s - last_update.s) * 1000
               + FloorDiv(timestamp_us.us - last_update.us, 1000)
       IN time_since_last_ms >= throttle_ms

Candle(timestamp, open, high, low, last_price, volume, trade_count, tf) ==
  [timestamp |-> timestamp, open |-> open, high |-> high, low |-> low,
   close |-> last_price, volume |-> volume, trade_count |-> trade_count,
   timeframe |-> tf]

CandleData(candle, is_closed, tf, sequence_id) ==
  [candle |-> candle, is_closed |-> is_closed, timeframe |-> tf,
   sequence_id |-> sequence_id]

Max(a, b) == IF a >= b THEN a ELSE b

Min(a, b) == IF a <= b THEN a ELSE b

\* CandleStream.__init__.  The dicts keyed by timeframe are sequences in the
\* order of timeframes.  published lists, per timeframe, the items handed to
\* publish; assigned lists the trades that went into the current candle; fed
\* lists the trades given to update_from_trade; closed lists the closing
\* publishes, each with the trades that had gone into the candle.
CandleStream(timeframes, maxsize) ==
  [timeframes |-> timeframes,
   streams |-> [i \in DOMAIN timeframes |-> BoundedMarketDataStream(maxsize)],
   current_candles |-> [i \in DOMAIN timeframes |-> <<>>],
   sequence_counters |-> [i \in DOMAIN timeframes |-> 0],
   last_update_times |-> [i \in DOMAIN timeframes |-> Time(0, 0)],
   published |-> [i \in DOMAIN timeframes |-> <<>>],
   assigned |-> [i \in DOMAIN timeframes |-> <<>>],
   fed |-> <<>>,
   closed |-> [i \in DOMAIN timeframes |-> <<>>]]

\* one publish of _update_candle: the counter is incremented and the item
\* handed to the timeframe's stream
publish_candle(cs, i, candle, is_closed) ==
  LET sequence_id == cs.sequence_counters[i] + 1
      data == CandleData(candle, is_closed, cs.timeframes[i], sequence_id)
  IN [cs EXCEPT !.sequence_counters[i] = sequence_id,
                !.streams[i] = publish(@, data).stream,
                !.published[i] = Append(@, data)]

\* a variant of close_candle that reuses the sequence_id of the last publish
close_candleKeepsSequence(cs, i) ==
  LET data == CandleData(cs.current_candles[i][1], TRUE, cs.timeframes[i],
                         cs.sequence_counters[i])
  IN [cs EXCEPT !.streams[i] = publish(@, data).stream,
                !.published[i] = Append(@, data),
                !.closed[i] = Append(@, [data |-> data, trades |-> cs.assigned[i]])]

\* _update_candle, lines 257-266: the closing publish
close_candle(cs, i) ==
  LET cs1 == publish_candle(cs, i, cs.current_candles[i][1], TRUE)
  IN [cs1 EXCEPT !.closed[i] =
        Append(@, [data |-> cs1.published[i][Len(cs1.published[i])],
                   trades |-> cs.assigned[i]])]

\* a variant of update_existing that leaves the candle alone when the live
\* update is throttled
update_existingSkipsThrottled(cs, i, trade) ==
  IF should_update_candle(cs.timeframes[i], cs.last_update_times[i], trade.timestamp)
  THEN LET candle == cs.current_candles[i][1]
           updated_candle ==
             Candle(candle.timestamp, candle.open, Max(candle.high, trade.price),
                    Min(candle.low, trade.price), trade.price,
                    candle.volume + trade.size, candle.trade_count + 1,
                    cs.timeframes[i])
           cs1 == [cs EXCEPT !.current_candles[i] = <<updated_candle>>,
                             !.assigned[i] = Append(@, trade)]
       IN [publish_candle(cs1, i, updated_candle, FALSE)
             EXCEPT !.last_update_times[i] = trade.timestamp]
  ELSE [cs EXCEPT !.assigned[i] = Append(@, trade)]

\* _update_candle, lines 290-315: the trade goes into the current candle
update_existing(cs, i, trade) ==
  LET candle == cs.current_candles[i][1]
      updated_candle ==
        Candle(candle.timestamp, candle.open, Max(candle.high, trade.price),
               Min(candle.low, trade.price), trade.price,
               candle.volume + trade.size, candle.trade_count + 1,
               cs.timeframes[i])
      cs1 == [cs EXCEPT !.current_candles[i] = <<updated_candle>>,
                        !.assigned[i] = Append(@, trade)]
  IN IF should_update_candle(cs.timeframes[i], cs.last_update_times[i], trade.timestamp)
     THEN [publish_candle(cs1, i, updated_candle, FALSE)
             EXCEPT !.last_update_times[i] = trade.timestamp]
     ELSE cs1

\* CandleStream._update_candle
update_candle(cs, i, trade) ==
  LET current == cs.current_candles[i]
      candle_start == get_candle_start_time(trade.timestamp, cs.timeframes[i])
  IN IF current = <<>> \/ current[1].timestamp # candle_start
     THEN LET cs1 == IF current # <<>> THEN close_candle(cs, i) ELSE cs
              new_candle == Candle(candle_start, trade.price, trade.price,
                                   trade.price, trade.price, trade.size, 1,
                                   cs.timeframes[i])
              cs2 == [cs1 EXCEPT !.current_candles[i] = <<new_candle>>,
                                 !.assigned[i] = <<trade>>]
          IN publish_candle(cs2, i, new_candle, FALSE)
     ELSE update_existing(cs, i, trade)

\* CandleStream.update_from_trade: the timeframes in their order
RECURSIVE update_from(_, _, _)
update_from(cs, i, trade) ==
  IF i > Len(cs.timeframes) THEN cs
  ELSE update_from(update_candle(cs, i, trade), i + 1, trade)

update_from_trade(cs, trade) ==
  update_from([cs EXCEPT !.fed = Append(@, trade)], 1, trade)

CandleMaxSize == 2 \* maxsize of each timeframe's stream

\* CandleStream([]): no timeframe, so that no trade changes it
NoCandles == CandleStream(<<>>, CandleMaxSize)

\* ------------------------------------------------------------------------
\* agents/base.py: AsyncAgentPool, agents/batched_pool.py: BatchedAgentPool,
\* with add_agent and remove_agent of MarketSimulation
\* ------------------------------------------------------------------------
\* A list of agents is an object: two attributes can hold the same list, and
\* an append through one is seen through the other.  lists is the sequence
\* of the list objects made so far, and an attribute that holds a list holds
\* its index in lists; NoList is an attribute that was not assigned.
NoList == 0

\* the thresholds of _analyze_agents and _select_strategy
IdenticalMinCount == 10
IndividualMaxTotal == 10
StatisticalMinTotal == 1000
StatisticalMinIdentical == 500
HybridBatchedMinIdentical == 50

\* the agent types of add_agent
AgentTypes == {"MarketMaker", "NoiseTrader", "InformedTrader", "Taker"}

\* the class add_agent makes for a type
AgentClass(agent_type) == agent_type \o "Agent"

AgentClasses == {AgentClass(agent_type) : agent_type \in AgentTypes}

\* str.lower() of the type names and of the class names
Lower(name) ==
  CASE name = "MarketMaker" -> "marketmaker"
    [] name = "NoiseTrader" -> "noisetrader"
    [] name = "InformedTrader" -> "informedtrader"
    [] name = "Taker" -> "taker"
    [] name = "MarketMakerAgent" -> "marketmakeragent"
    [] name = "NoiseTraderAgent" -> "noisetraderagent"
    [] name = "InformedTraderAgent" -> "informedtraderagent"
    [] name = "TakerAgent" -> "takeragent"

\* an agent: its class and its agent_id
PoolAgent(cls, agent_id) == [cls |-> cls, agent_id |-> agent_id]

AgentIdsOf(agents) == {agents[k].agent_id : k \in 1..Len(agents)}

\* Counter(type(agent).__name__ for agent in agents)[cls]
CountOfClass(agents, cls) ==
  Cardinality({k \in 1..Len(agents) : agents[k].cls = cls})

\* BatchedAgentPool._analyze_agents
analyze_agents(agents) ==
  LET present == {agents[k].cls : k \in 1..Len(agents)}
      total == [cls \in present |-> CountOfClass(agents, cls)]
  IN [identical |-> {cls \in present : total[cls] >= IdenticalMinCount},
      specialized |-> {cls \in present : total[cls] < IdenticalMinCount},
      total |-> total]

RECURSIVE SumOfCounts(_, _)
SumOfCounts(total, classes) ==
  IF classes = {} THEN 0
  ELSE LET cls == CHOOSE c \in classes : TRUE
       IN total[cls] + SumOfCounts(total, classes \ {cls})

\* BatchedAgentPool._select_strategy
select_strategy(agents, agent_types) ==
  LET total_agents == Len(agents)
      identical_count == SumOfCounts(agent_types.total, agent_types.identical)
  IN IF total_agents < IndividualMaxTotal THEN "individual"
     ELSE IF total_agents >= StatisticalMinTotal
               /\ identical_count >= StatisticalMinIdentical
     THEN "statistical"
     ELSE IF identical_count >= HybridBatchedMinIdentical THEN "hybrid_batched"
     ELSE "hybrid_balanced"

\* BatchedAgentPool._agent_to_config: <<>> is None
agent_to_config(cls, count) ==
  IF cls \in {"NoiseTraderAgent", "TakerAgent"}
  THEN <<[name |-> Lower(cls), count |-> count]>>
  ELSE <<>>

\* BatchedAgentPool._create_statistical_configs; the order of the configs,
\* which is the order of the batches in the result, is left out
create_statistical_configs(agent_types) ==
  {agent_to_config(cls, agent_types.total[cls])[1] :
     cls \in {c \in agent_types.identical :
                agent_to_config(c, agent_types.total[c]) # <<>>}}

\* AsyncAgentPool.__init__ under MarketSimulation: the pool keeps the list
\* it is given.  agent_counter is MarketSimulation._agent_counter; invoked
\* and batch are what the last wakeup cycle ran, cycled tells that a cycle
\* ran since the last add_agent or remove_agent, added and removed are the
\* ids add_agent returned and the agents remove_agent returned True for.
AsyncAgentPool(agents) ==
  [batched |-> FALSE, strategy |-> "individual",
   lists |-> <<agents>>, agents |-> 1,
   agent_types |-> analyze_agents(<<>>),
   individual_pool |-> <<>>, statistical_pool |-> <<>>,
   specialized_agents |-> NoList, identical_agents |-> NoList,
   agent_counter |-> [agent_type \in AgentTypes |-> 0],
   invoked |-> {}, batch |-> {}, cycled |-> FALSE, calls |-> 0,
   added |-> {}, removed |-> {}]

\* BatchedAgentPool._init_sub_pools: <<>> is None, <<n>> an AsyncAgentPool
\* over list n or a StatisticalAgentSimulator over the configs n
init_sub_pools(pool) ==
  IF pool.strategy = "individual"
  THEN [pool EXCEPT !.lists = @ \o << <<>>, <<>> >>,
                    !.individual_pool = <<pool.agents>>,
                    !.statistical_pool = <<>>,
                    !.specialized_agents = Len(pool.lists) + 1,
                    !.identical_agents = Len(pool.lists) + 2]
  ELSE IF pool.strategy = "statistical"
  THEN [pool EXCEPT !.lists = @ \o << <<>> >>,
                    !.statistical_pool = <<create_statistical_configs(pool.agent_types)>>,
                    !.individual_pool = <<>>,
                    !.specialized_agents = Len(pool.lists) + 1,
                    !.identical_agents = pool.agents]
  ELSE LET identical_configs == create_statistical_configs(pool.agent_types)
           specialized ==
             SelectSeq(pool.lists[pool.agents],
                       LAMBDA a : a.cls \notin pool.agent_types.identical)
       IN [pool EXCEPT !.lists = @ \o <<specialized>>,
                       !.statistical_pool =
                         IF identical_configs # {} THEN <<identical_configs>> ELSE <<>>,
                       !.specialized_agents = Len(pool.lists) + 1,
                       !.individual_pool =
                         IF specialized # <<>> THEN <<Len(pool.lists) + 1>> ELSE <<>>]

\* BatchedAgentPool.__init__
BatchedAgentPool(agents, enable_batching) ==
  LET agent_types == analyze_agents(agents)
      strategy == IF enable_batching THEN select_strategy(agents, agent_types)
                  ELSE "individual"
  IN init_sub_pools([AsyncAgentPool(agents) EXCEPT !.batched = TRUE,
                                                   !.agent_types = agent_types,
                                                   !.strategy = strategy])

\* MarketSimulation.__init__, lines 47-57
SimulationAgentPool(agents, enable_batching) ==
  IF enable_batching THEN BatchedAgentPool(agents, TRUE)
  ELSE AsyncAgentPool(agents)

\* AsyncAgentPool.generate_all_orders and BatchedAgentPool.generate_all_orders:
\* the agents whose generate_orders is called and the configs a batch of
\* orders is generated for
pool_generate_all_orders(pool) ==
  IF ~pool.batched
  THEN [invoked |-> AgentIdsOf(pool.lists[pool.agents]), batch |-> {}]
  ELSE IF pool.strategy = "individual"
  THEN [invoked |-> AgentIdsOf(pool.lists[pool.individual_pool[1]]), batch |-> {}]
  ELSE IF pool.strategy = "statistical"
  THEN [invoked |-> {},
        batch |-> {c \in pool.statistical_pool[1] : c.count # 0}]
  ELSE [invoked |->
          IF pool.individual_pool # <<>> /\ pool.lists[pool.specialized_agents] # <<>>
          THEN AgentIdsOf(pool.lists[pool.individual_pool[1]])
          ELSE {},
        batch |->
          IF pool.statistical_pool # <<>>
          THEN {c \in pool.statistical_pool[1] : c.count # 0}
          ELSE {}]

\* MarketSimulation._handle_agent_wakeup, as far as the pool goes
pool_wakeup(pool) ==
  LET cycle == pool_generate_all_orders(pool)
  IN [pool EXCEPT !.invoked = cycle.invoked, !.batch = cycle.batch,
                  !.cycled = TRUE, !.calls = @ + 1]

\* MarketSimulation.add_agent with _get_next_agent_id: the id is the pair of
\* agent_type.lower() and the counter
add_agent(pool, agent_type) ==
  LET counter == pool.agent_counter[agent_type] + 1
      agent_id == <<Lower(agent_type), counter>>
      agent == PoolAgent(AgentClass(agent_type), agent_id)
  IN [pool EXCEPT !.agent_counter[agent_type] = counter,
                  !.lists[pool.agents] = Append(@, agent),
                  !.added = @ \cup {agent_id},
                  !.invoked = {}, !.batch = {}, !.cycled = FALSE,
                  !.calls = @ + 1]

\* MarketSimulation.remove_agent: a new list is bound to agent_pool.agents
remove_agent(pool, agent_id) ==
  LET initial_count == Len(pool.lists[pool.agents])
      kept == SelectSeq(pool.lists[pool.agents], LAMBDA a : a.agent_id # agent_id)
  IN [pool EXCEPT !.lists = Append(@, kept),
                  !.agents = Len(pool.lists) + 1,
                  !.removed = @ \cup {pool.lists[pool.agents][k] :
                                         k \in {n \in 1..initial_count :
                                                  pool.lists[pool.agents][n].agent_id
                                                    = agent_id}},
                  !.added = @ \ {agent_id},
                  !.invoked = {}, !.batch = {}, !.cycled = FALSE,
                  !.calls = @ + 1]

\* an AsyncAgentPool without agents
NoPool == AsyncAgentPool(<<>>)

\* ------------------------------------------------------------------------
\* State
\* ------------------------------------------------------------------------
VARIABLES
  order_book,   \* MarketSimulation.order_book: the current book
  prev_book,    \* the book the last call was made on
  last,         \* the last call: its name, its arguments and what it returned
  ops,          \* number of calls made so far
  next_id,      \* the smallest order id not used yet
  reused,       \* TRUE once an order was submitted under an id used before
  time_engine,  \* MarketSimulation.time_engine
  prev_engine,  \* the time engine before the last schedule_event call or dispatch
  agents,       \* MarketSimulation.agent_pool.agents: agent_id -> agent
  current_market_data,  \* MarketSimulation.current_market_data
  submitted,    \* the order ids the agents have generated so far
  mem,          \* the dict objects behind the snapshots (SpecMem)
  run_loop,     \* the task running AsyncTimeEngine.run, with the pause gate
  stream,       \* a BoundedMarketDataStream with its subscribers
  candle_stream,  \* MarketSimulation.candle_stream (SpecCandle)
  agent_pool    \* MarketSimulation.agent_pool with its lists of agents (SpecPool)

vars == <<order_book, prev_book, last, ops, next_id, reused,
          time_engine, prev_engine, agents, current_market_data, submitted, mem,
          run_loop, stream, candle_stream, agent_pool>>

\* what the calls on the book leave alone
simVars == <<time_engine, prev_engine, agents, current_market_data, submitted, mem,
             run_loop, stream, candle_stream, agent_pool>>

NoCall ==
  [op |-> "init", order |-> <<>>, result |-> <<>>, passives |-> <<>>,
   order_id |-> 0, cancelled |-> <<>>, removed |-> <<>>,
   filled_size |-> 0, status |-> "PENDING", trade |-> <<>>,
   event |-> <<>>, delay_us |-> 0, returned |-> FALSE,
   stream_before |-> <<>>]

\* the orders a caller submits: constructible orders (Order.__post_init__), a
\* price on limit orders only, and one representative of the unsupported types
InputOrders(ids) ==
  {o \in
     {Order(id, side, "MARKET", size, NoPrice, tif) :
        id \in ids, side \in Side, size \in Sizes, tif \in TimeInForce}
     \cup
     {Order(t[1], t[2], "LIMIT", t[3], t[4], t[5]) :
        t \in ids \X Side \X Sizes \X Prices \X TimeInForce}
     \cup
     {Order(id, side, "STOP_LOSS", size, NoPrice, "GTC") :
        id \in ids, side \in Side, size \in Sizes}
   : OrderPostInit(o)}

\* MarketSimulation.__init__ and _schedule_agent_wakeups: the engine with the
\* first wakeup queued
SimulationTimeEngine ==
  schedule_event(AsyncTimeEngine(start_time_us, SimQueueSize),
                 Event("AgentWakeupEvent", start_time_us + agent_wakeup_interval_us,
                       4, <<"all">>),
                 0).engine

\* AsyncAgent.__init__: the fields the trade callback writes
AsyncAgent(agent_id) ==
  [agent_id |-> agent_id, position |-> 0, total_trades |-> 0]

\* MarketSimulation.__init__: an empty book, the agents as constructed, the
\* first wakeup scheduled
Init ==
  /\ order_book = EmptyBook
  /\ prev_book = EmptyBook
  /\ last = NoCall
  /\ ops = 0
  /\ next_id = 1
  /\ reused = FALSE
  /\ time_engine = SimulationTimeEngine
  /\ prev_engine = SimulationTimeEngine
  /\ agents = [a \in AgentIds |-> AsyncAgent(a)]
  /\ current_market_data = [timestamp |-> start_time_us]
  /\ submitted = {}
  /\ mem = InitialMem
  /\ run_loop = RunLoop(1, 1..NumHandlers)
  /\ stream = BoundedMarketDataStream(StreamMaxSize)
  /\ candle_stream = NoCandles
  /\ agent_pool = NoPool

Submit(order) ==
  /\ ops' = ops + 1
  /\ next_id' = IF order.order_id = next_id THEN next_id + 1 ELSE next_id
  /\ reused' = (reused \/ order.order_id # next_id)

\* MarketSimulation._handle_order_event: match the order, keep the new book.
\* The handler then schedules one TradeEvent per trade and publishes a market
\* data update; these act on the event queue and on the output stream and
\* leave the book alone.  `last` keeps the MatchResult they are built from.
HandleOrderEvent ==
  /\ ops < MaxOps
  /\ \E order \in InputOrders(1..next_id) :
       LET m == match_order(order, order_book)
       IN /\ order_book' = m.book
          /\ prev_book' = order_book
          /\ last' = [NoCall EXCEPT !.op = "match_order", !.order = <<order>>,
                                    !.result = <<m.result>>, !.passives = m.passives,
                                    !.order_id = order.order_id]
          /\ Submit(order)
          /\ UNCHANGED simVars

\* a direct call of ImmutableOrderBook.add_order with a new limit order
AddOrder ==
  /\ ops < MaxOps
  /\ \E order \in {o \in InputOrders(1..next_id) :
                      o.order_type = "LIMIT" /\ o.time_in_force = "GTC"} :
       /\ order_book' = Book_add_order(order_book, order)
       /\ prev_book' = order_book
       /\ last' = [NoCall EXCEPT !.op = "add_order", !.order = <<order>>,
                                 !.order_id = order.order_id]
       /\ Submit(order)
       /\ UNCHANGED simVars

\* a call of MatchingEngine.cancel_order, keeping the new book
CancelOrder ==
  /\ ops < MaxOps
  /\ \E id \in 1..next_id :
       LET c == cancel_order(id, order_book)
       IN /\ order_book' = c.book
          /\ prev_book' = order_book
          /\ last' = [NoCall EXCEPT !.op = "cancel_order", !.order_id = id,
                                    !.cancelled = c.cancelled]
          /\ ops' = ops + 1
          /\ UNCHANGED <<next_id, reused>>
          /\ UNCHANGED simVars

\* a direct call of ImmutableOrderBook.remove_order, keeping the new book
RemoveOrder ==
  /\ ops < MaxOps
  /\ \E id \in 1..next_id :
       LET r == Book_remove_order(order_book, id)
       IN /\ order_book' = r.book
          /\ prev_book' = order_book
          /\ last' = [NoCall EXCEPT !.op = "remove_order", !.order_id = id,
                                    !.removed = r.order]
          /\ ops' = ops + 1
          /\ UNCHANGED <<next_id, reused>>
          /\ UNCHANGED simVars

\* the status values update_order is called with
UpdateStatus == {"OPEN", "PARTIALLY_FILLED", "FILLED", "CANCELLED"}

\* a direct call of ImmutableOrderBook.update_order, keeping the new book
UpdateOrder ==
  /\ ops < MaxOps
  /\ \E id \in 1..next_id, filled_size \in 0..MaxSize, status \in UpdateStatus :
       /\ order_book' = Book_update_order(order_book, id, filled_size, status)
       /\ prev_book' = order_book
       /\ last' = [NoCall EXCEPT !.op = "update_order", !.order_id = id,
                                 !.filled_size = filled_size, !.status = status]
       /\ ops' = ops + 1
       /\ UNCHANGED <<next_id, reused>>
       /\ UNCHANGED simVars

\* a direct call of ImmutableOrderBook.record_trade, keeping the new book; only
\* the price of the trade is read
RecordTrade ==
  /\ ops < MaxOps
  /\ \E price \in Prices :
       LET trade == Trade(price, 1, 1, 1, "BUY")
       IN /\ order_book' = Book_record_trade(order_book, trade)
          /\ prev_book' = order_book
          /\ last' = [NoCall EXCEPT !.op = "record_trade", !.trade = <<trade>>]
          /\ ops' = ops + 1
          /\ UNCHANGED <<next_id, reused>>
          /\ UNCHANGED simVars

Next ==
  \/ HandleOrderEvent
  \/ AddOrder
  \/ CancelOrder
  \/ RemoveOrder
  \/ UpdateOrder
  \/ RecordTrade

Spec == Init /\ [][Next]_vars

\* The same handler on a narrower stream of orders, followed further: limit
\* orders at one price, GTC or IOC, each under an id of its own.
QueueOrders ==
  {Order(next_id, side, "LIMIT", size, 1, tif) :
     side \in Side, size \in Sizes, tif \in {"GTC", "IOC"}}

\* MarketSimulation._handle_order_event on the orders of QueueOrders
HandleQueueOrderEvent ==
  /\ ops < MaxQueueOps
  /\ \E order \in QueueOrders :
       LET m == match_order(order, order_book)
       IN /\ order_book' = m.book
          /\ prev_book' = order_book
          /\ last' = [NoCall EXCEPT !.op = "match_order", !.order = <<order>>,
                                    !.result = <<m.result>>, !.passives = m.passives,
                                    !.order_id = order.order_id]
          /\ Submit(order)
          /\ UNCHANGED simVars

SpecQueue == Init /\ [][HandleQueueOrderEvent]_vars

\* ------------------------------------------------------------------------
\* The time engine on its own: schedule_event calls and dispatches of an
\* engine without handlers
\* ------------------------------------------------------------------------
EngineInit ==
  /\ time_engine = AsyncTimeEngine(start_time_us, MaxQueueSize)
  /\ prev_engine = AsyncTimeEngine(start_time_us, MaxQueueSize)
  /\ last = NoCall
  /\ order_book = EmptyBook
  /\ prev_book = EmptyBook
  /\ ops = 0
  /\ next_id = 1
  /\ reused = FALSE
  /\ agents = [a \in AgentIds |-> AsyncAgent(a)]
  /\ current_market_data = [timestamp |-> start_time_us]
  /\ submitted = {}
  /\ mem = InitialMem
  /\ run_loop = RunLoop(1, 1..NumHandlers)
  /\ stream = BoundedMarketDataStream(StreamMaxSize)
  /\ candle_stream = NoCandles
  /\ agent_pool = NoPool

\* what the engine on its own leaves alone
engineFrame ==
  <<order_book, prev_book, ops, next_id, reused, agents, current_market_data,
    submitted, mem, run_loop, stream, candle_stream, agent_pool>>

\* the events scheduled on the engine: priorities 1 to 3, no payload
EngineEvents ==
  {Event("Event", time_engine.current_time_us, priority, <<>>) : priority \in 1..3}

\* a call of AsyncTimeEngine.schedule_event
ScheduleEvent ==
  /\ time_engine.stats.events_scheduled + time_engine.stats.events_dropped
       < MaxScheduleCalls
  /\ \E event \in EngineEvents, delay_us \in 0..MaxDelay :
       LET r == schedule_event(time_engine, event, delay_us)
       IN /\ time_engine' = r.engine
          /\ prev_engine' = time_engine
          /\ last' = [NoCall EXCEPT !.op = "schedule_event", !.event = <<event>>,
                                    !.delay_us = delay_us, !.returned = r.returned]
          /\ UNCHANGED engineFrame

\* one iteration of AsyncTimeEngine.run: no handler is registered, so the
\* dispatch does nothing
RunIteration ==
  /\ time_engine.event_queue # {}
  /\ LET popped == PopNext(time_engine)
     IN /\ time_engine' = Processed(popped.engine)
        /\ prev_engine' = time_engine
        /\ last' = [NoCall EXCEPT !.op = "dispatch", !.event = <<popped.event>>]
        /\ UNCHANGED engineFrame

EngineNext == ScheduleEvent \/ RunIteration

SpecEngine == EngineInit /\ [][EngineNext]_vars

\* ------------------------------------------------------------------------
\* SpecLoop: the task of AsyncTimeEngine.run with its suspension points, and
\* the calls other tasks and the handlers make while it is suspended
\* ------------------------------------------------------------------------
LoopInit ==
  /\ time_engine = AsyncTimeEngine(start_time_us, MaxQueueSize)
  /\ prev_engine = AsyncTimeEngine(start_time_us, MaxQueueSize)
  /\ run_loop \in {RunLoop(speed_multiplier, named) :
                     speed_multiplier \in 0..1, named \in SUBSET (1..NumHandlers)}
  /\ last = NoCall
  /\ order_book = EmptyBook
  /\ prev_book = EmptyBook
  /\ ops = 0
  /\ next_id = 1
  /\ reused = FALSE
  /\ agents = [a \in AgentIds |-> AsyncAgent(a)]
  /\ current_market_data = [timestamp |-> start_time_us]
  /\ submitted = {}
  /\ mem = InitialMem
  /\ stream = BoundedMarketDataStream(StreamMaxSize)
  /\ candle_stream = NoCandles
  /\ agent_pool = NoPool

loopFrame ==
  <<order_book, prev_book, next_id, reused, agents, current_market_data,
    submitted, mem, stream, candle_stream, agent_pool>>

\* another task, or a handler of the event being dispatched, can run: the
\* loop has not started or is suspended
LoopSuspended == run_loop.pc \in {"init", "waiting", "sleeping", "dispatching"}

\* schedule_event called by another task or by a handler
LoopScheduleEvent ==
  /\ LoopSuspended
  /\ time_engine.stats.events_scheduled + time_engine.stats.events_dropped
       < MaxLoopEvents
  /\ \E priority \in 1..2, delay_us \in 0..MaxDelay :
       LET event == Event("Event", time_engine.current_time_us, priority, <<>>)
           r == schedule_event(time_engine, event, delay_us)
       IN /\ time_engine' = r.engine
          /\ last' = [NoCall EXCEPT !.op = "schedule_event", !.returned = r.returned]
          /\ UNCHANGED <<run_loop, ops, prev_engine>>
          /\ UNCHANGED loopFrame

\* pause() called by another task
LoopPause ==
  /\ LoopSuspended
  /\ ops < MaxGateCalls
  /\ run_loop' = pause(run_loop)
  /\ ops' = ops + 1
  /\ last' = [NoCall EXCEPT !.op = "pause"]
  /\ UNCHANGED <<time_engine, prev_engine>>
  /\ UNCHANGED loopFrame

\* resume() called by another task
LoopResume ==
  /\ LoopSuspended
  /\ ops < MaxGateCalls
  /\ run_loop' = resume(run_loop)
  /\ ops' = ops + 1
  /\ last' = [NoCall EXCEPT !.op = "resume"]
  /\ UNCHANGED <<time_engine, prev_engine>>
  /\ UNCHANGED loopFrame

LoopStep(r, op) ==
  /\ time_engine' = r.engine
  /\ run_loop' = r.loop
  /\ last' = [NoCall EXCEPT !.op = op]
  /\ UNCHANGED <<ops, prev_engine>>
  /\ UNCHANGED loopFrame

\* run() is called
LoopRun ==
  /\ run_loop.pc = "init"
  /\ LoopStep([engine |-> time_engine, loop |-> LoopStart(run_loop, NoLimit)], "run")

\* the loop starts an iteration
LoopIterate ==
  /\ run_loop.pc = "top"
  /\ LoopStep(LoopTop(time_engine, run_loop), "iterate")

\* the loop task runs again after its wait on the pause gate was resolved
LoopWake ==
  /\ run_loop.pc = "waiting"
  /\ run_loop.woken
  /\ LoopStep(LoopGatePassed(time_engine, [run_loop EXCEPT !.woken = FALSE]), "wake")

\* the sleep before the event is over
LoopSleepDone ==
  /\ run_loop.pc = "sleeping"
  /\ LoopStep(LoopAdvance(time_engine, run_loop), "advance")

\* one of the handlers of the event ends
LoopHandlerDone ==
  /\ run_loop.pc = "dispatching"
  /\ \E handler \in run_loop.pending, raises \in BOOLEAN :
       LoopStep([engine |-> time_engine,
                 loop |-> HandlerDone(run_loop, handler, raises)], "handler")

\* all handlers have ended
LoopEventProcessed ==
  /\ run_loop.pc = "dispatching"
  /\ run_loop.pending = {}
  /\ LoopStep(LoopDispatched(time_engine, run_loop), "dispatched")

LoopNext ==
  \/ LoopScheduleEvent
  \/ LoopPause
  \/ LoopResume
  \/ LoopRun
  \/ LoopIterate
  \/ LoopWake
  \/ LoopSleepDone
  \/ LoopHandlerDone
  \/ LoopEventProcessed

SpecLoop == LoopInit /\ [][LoopNext]_vars

\* ------------------------------------------------------------------------
\* SpecControl: SpecLoop with a time limit given to run() and with stop()
\* and clear_queue() among the calls of the other tasks
\* ------------------------------------------------------------------------
ControlInit ==
  /\ time_engine = AsyncTimeEngine(start_time_us, MaxQueueSize)
  /\ prev_engine = AsyncTimeEngine(start_time_us, MaxQueueSize)
  /\ run_loop \in {RunLoop(speed_multiplier, 1..NumHandlers) :
                     speed_multiplier \in 0..1}
  /\ last = NoCall
  /\ order_book = EmptyBook
  /\ prev_book = EmptyBook
  /\ ops = 0
  /\ next_id = 1
  /\ reused = FALSE
  /\ agents = [a \in AgentIds |-> AsyncAgent(a)]
  /\ current_market_data = [timestamp |-> start_time_us]
  /\ submitted = {}
  /\ mem = InitialMem
  /\ stream = BoundedMarketDataStream(StreamMaxSize)
  /\ candle_stream = NoCandles
  /\ agent_pool = NoPool

\* schedule_event called by another task or by a handler
ControlScheduleEvent ==
  /\ LoopSuspended
  /\ time_engine.stats.events_scheduled + time_engine.stats.events_dropped
       < MaxControlEvents
  /\ \E delay_us \in 0..MaxControlDelay :
       LET event == Event("Event", time_engine.current_time_us, 1, <<>>)
           r == schedule_event(time_engine, event, delay_us)
       IN /\ time_engine' = r.engine
          /\ last' = [NoCall EXCEPT !.op = "schedule_event", !.returned = r.returned]
          /\ UNCHANGED <<run_loop, ops, prev_engine>>
          /\ UNCHANGED loopFrame

\* run(until_time_us) is called
ControlRun ==
  /\ run_loop.pc = "init"
  /\ \E until_time_us \in {NoLimit} \cup 1..MaxUntil :
       LoopStep([engine |-> time_engine,
                 loop |-> LoopStart(run_loop, until_time_us)], "run")

\* stop() called by another task or by a handler while run() is under way
ControlStop ==
  /\ run_loop.pc \in {"waiting", "sleeping", "dispatching"}
  /\ ops < MaxControlCalls
  /\ run_loop' = stop(run_loop)
  /\ ops' = ops + 1
  /\ last' = [NoCall EXCEPT !.op = "stop"]
  /\ UNCHANGED <<time_engine, prev_engine>>
  /\ UNCHANGED loopFrame

\* clear_queue() called by another task or by a handler
ControlClearQueue ==
  /\ LoopSuspended
  /\ ops < MaxControlCalls
  /\ time_engine' = clear_queue(time_engine)
  /\ ops' = ops + 1
  /\ last' = [NoCall EXCEPT !.op = "clear_queue"]
  /\ UNCHANGED <<run_loop, prev_engine>>
  /\ UNCHANGED loopFrame

\* pause() or resume() called by another task
ControlPause == ops < MaxControlCalls /\ LoopPause

ControlResume == ops < MaxControlCalls /\ LoopResume

\* the steps of the task of run()
ControlLoopStep ==
  \/ LoopIterate
  \/ LoopWake
  \/ LoopSleepDone
  \/ LoopHandlerDone
  \/ LoopEventProcessed

ControlNext ==
  \/ ControlScheduleEvent
  \/ ControlRun
  \/ ControlStop
  \/ ControlClearQueue
  \/ ControlPause
  \/ ControlResume
  \/ LoopIterate
  \/ LoopWake
  \/ LoopSleepDone
  \/ LoopHandlerDone
  \/ LoopEventProcessed

SpecControl == ControlInit /\ [][ControlNext]_vars

\* the event loop runs the task of run() whenever it is ready: after its
\* wait on the gate was resolved, after its sleep, after the handlers
ControlFairness == WF_vars(ControlLoopStep)

SpecControlLive == ControlInit /\ [][ControlNext]_vars /\ ControlFairness

\* ------------------------------------------------------------------------
\* SpecStream: one BoundedMarketDataStream, its publishers, the consumers
\* iterating subscribe() and the forwarder tasks
\* ------------------------------------------------------------------------
streamFrame ==
  <<order_book, prev_book, ops, next_id, reused, time_engine, prev_engine,
    agents, current_market_data, submitted, mem, run_loop,
    candle_stream, agent_pool>>

StreamStep(st, op) ==
  /\ stream' = st
  /\ last' = [NoCall EXCEPT !.op = op]
  /\ UNCHANGED streamFrame

\* a call of publish or publish_nowait; the message is the number of the call
Publish ==
  /\ stream.calls < MaxPublish
  /\ LET r == publish(stream, stream.calls + 1)
     IN /\ stream' = r.stream
        /\ last' = [NoCall EXCEPT !.op = "publish", !.returned = r.returned,
                                  !.stream_before = <<stream>>]
        /\ UNCHANGED streamFrame

\* a consumer starts to iterate subscribe()
Subscribe ==
  \E sub \in 1..NumSubscribers :
    /\ stream.subscriptions[sub].state = "new"
    /\ StreamStep(subscribe(stream, sub), "subscribe")

\* a forwarder that waits on the main queue gets its head
ForwardGet(sub) ==
  /\ stream.subscriptions[sub].forwarder = "waiting"
  /\ stream.queue # <<>>
  /\ StreamStep(forward_get(stream, sub), "forward_get")

\* a forwarder ends its put, with or without success
ForwardPut(sub) ==
  /\ stream.subscriptions[sub].forwarder = "holding"
  /\ StreamStep(forward_put(stream, sub), "forward_put")

\* a consumer is given the next item of its subscriber queue
SubscriberGet(sub) ==
  /\ stream.subscriptions[sub].state = "reading"
  /\ stream.subscriptions[sub].queue # <<>>
  /\ StreamStep(subscriber_get(stream, sub), "get")

\* close() is called, once
Close ==
  /\ stream.closed = <<>>
  /\ StreamStep(close(stream), "close")

StreamNext ==
  \/ Publish
  \/ Subscribe
  \/ Close
  \/ \E sub \in 1..NumSubscribers : ForwardGet(sub)
  \/ \E sub \in 1..NumSubscribers : ForwardPut(sub)
  \/ \E sub \in 1..NumSubscribers : SubscriberGet(sub)

SpecStream == Init /\ [][StreamNext]_vars

\* the event loop runs every task that is ready: a forwarder that can take
\* or put an item and a consumer whose queue holds an item do so eventually
StreamFairness ==
  \A sub \in 1..NumSubscribers :
    /\ WF_vars(ForwardGet(sub))
    /\ WF_vars(ForwardPut(sub))
    /\ WF_vars(SubscriberGet(sub))

SpecStreamLive == Init /\ [][StreamNext]_vars /\ StreamFairness

\* ------------------------------------------------------------------------
\* The orchestrator: the run loop of the time engine with the three handlers
\* of MarketSimulation
\* ------------------------------------------------------------------------
\* An order as an agent builds it: Order.agent_id is the agent, and order_id
\* is f"{agent_id}_<tag>_{market_data.timestamp}"
AgentOrder(agent_id, timestamp, side, type, size, price, tif) ==
  Order(<<agent_id, timestamp>>, side, type, size, price, tif)
    @@ [agent_id |-> agent_id]

\* generate_orders of an agent: agents with an odd id are informed traders
\* (one LIMIT GTC order or none), the others noise traders (one MARKET IOC
\* order or none); side, size and price depend on random draws and on the
\* market and are left open
generate_orders(agent_id, market_data) ==
  {<<>>} \cup
  IF agent_id % 2 = 1
  THEN {<<AgentOrder(agent_id, market_data.timestamp, side, "LIMIT", size, price, "GTC")>> :
          side \in Side, size \in 1..MaxAgentSize, price \in Prices}
  ELSE {<<AgentOrder(agent_id, market_data.timestamp, side, "MARKET", size, NoPrice, "IOC")>> :
          side \in Side, size \in 1..MaxAgentSize}

\* AsyncAgentPool.generate_all_orders: the results of the agents, flattened in
\* the order of the agents
RECURSIVE generate_all_orders(_, _)
generate_all_orders(n, market_data) ==
  IF n = 0 THEN {<<>>}
  ELSE {head \o own : head \in generate_all_orders(n - 1, market_data),
                      own \in generate_orders(n, market_data)}

\* schedule_event for each event of a list, in order, return values ignored
RECURSIVE ScheduleAll(_, _, _)
ScheduleAll(engine, events, delay_us) ==
  IF events = <<>> THEN engine
  ELSE ScheduleAll(schedule_event(engine, Head(events), delay_us).engine,
                   Tail(events), delay_us)

\* MarketSimulation._handle_agent_wakeup: the engine after the handler
handle_agent_wakeup(engine, event, orders) ==
  LET order_events == [k \in 1..Len(orders) |->
                         Event("OrderEvent", event.timestamp, 3, <<orders[k]>>)]
      next_wakeup == Event("AgentWakeupEvent",
                           event.timestamp + agent_wakeup_interval_us, 4, <<"all">>)
  IN schedule_event(ScheduleAll(engine, order_events, 1), next_wakeup, 0).engine

\* a variant of handle_order_event that gives the trade events the priority
\* of order events
handle_order_eventTradesAsOrders(engine, event, result) ==
  IF result.rejected THEN engine
  ELSE ScheduleAll(engine,
                   [k \in 1..Len(result.trades) |->
                      Event("TradeEvent", event.timestamp, 3, <<result.trades[k]>>)],
                   0)

\* MarketSimulation._handle_order_event: the engine after the handler
handle_order_event(engine, event, result) ==
  IF result.rejected THEN engine
  ELSE ScheduleAll(engine,
                   [k \in 1..Len(result.trades) |->
                      Event("TradeEvent", event.timestamp, 2, <<result.trades[k]>>)],
                   0)

\* AsyncAgent.on_trade_executed (the balance is left out)
on_trade_executed(agent, order, executed_size) ==
  [agent EXCEPT !.total_trades = @ + 1,
                !.position = IF order.side = "BUY" THEN @ + executed_size
                             ELSE @ - executed_size]

\* the lookup of one side of a trade in _handle_trade_event: get_order, then
\* AsyncAgentPool.notify_trade
notify_trade(pool, book, order_id, executed_size) ==
  IF order_id \notin DOMAIN book.orders THEN pool
  ELSE LET order == book.orders[order_id]
       IN IF order.agent_id \notin DOMAIN pool THEN pool
          ELSE [pool EXCEPT ![order.agent_id] =
                  on_trade_executed(@, order, executed_size)]

\* MarketSimulation._handle_trade_event: the agents after the handler
handle_trade_event(pool, book, trade) ==
  notify_trade(notify_trade(pool, book, trade.buy_order_id, trade.size),
               book, trade.sell_order_id, trade.size)

\* what the run loop of the orchestrator leaves alone
simFrame == <<ops, next_id, mem, run_loop, stream, candle_stream, agent_pool>>

\* the run loop can take one more event
CanDispatch(kind) ==
  /\ time_engine.stats.events_processed < MaxEvents
  /\ time_engine.event_queue # {}
  /\ HeapMin(time_engine.event_queue)[4].kind = kind

\* one iteration of the run loop on an AgentWakeupEvent
DispatchAgentWakeup ==
  /\ CanDispatch("AgentWakeupEvent")
  /\ LET popped == PopNext(time_engine)
     IN \E orders \in generate_all_orders(NumAgents, current_market_data) :
          /\ time_engine' = Processed(handle_agent_wakeup(popped.engine, popped.event, orders))
          /\ prev_engine' = time_engine
          /\ last' = [NoCall EXCEPT !.op = "wakeup", !.event = <<popped.event>>]
          /\ submitted' = submitted \cup {orders[k].order_id : k \in 1..Len(orders)}
          /\ reused' = (reused \/ \E k \in 1..Len(orders) :
                                     orders[k].order_id \in submitted)
          /\ UNCHANGED <<order_book, prev_book, agents, current_market_data>>
          /\ UNCHANGED simFrame

\* one iteration of the run loop on an OrderEvent
DispatchOrderEvent ==
  /\ CanDispatch("OrderEvent")
  /\ LET popped == PopNext(time_engine)
         order == popped.event.payload[1]
         m == match_order(order, order_book)
     IN /\ order_book' = m.book
        /\ prev_book' = order_book
        /\ time_engine' = Processed(handle_order_event(popped.engine, popped.event, m.result))
        /\ prev_engine' = time_engine
        /\ last' = [NoCall EXCEPT !.op = "match_order", !.order = <<order>>,
                                  !.result = <<m.result>>, !.passives = m.passives,
                                  !.order_id = order.order_id,
                                  !.event = <<popped.event>>]
        /\ UNCHANGED <<agents, current_market_data, submitted, reused>>
        /\ UNCHANGED simFrame

\* one iteration of the run loop on a TradeEvent
DispatchTradeEvent ==
  /\ CanDispatch("TradeEvent")
  /\ LET popped == PopNext(time_engine)
         trade == popped.event.payload[1]
     IN /\ agents' = handle_trade_event(agents, order_book, trade)
        /\ current_market_data' = [timestamp |-> popped.event.timestamp]
        /\ time_engine' = Processed(popped.engine)
        /\ prev_engine' = time_engine
        /\ last' = [NoCall EXCEPT !.op = "trade", !.trade = <<trade>>,
                                  !.event = <<popped.event>>]
        /\ UNCHANGED <<order_book, prev_book, submitted, reused>>
        /\ UNCHANGED simFrame

SimNext == DispatchAgentWakeup \/ DispatchOrderEvent \/ DispatchTradeEvent

SpecSim == Init /\ [][SimNext]_vars

\* the orchestrator with room for one more event in the queue of its engine
SimWideInit ==
  /\ time_engine =
       schedule_event(AsyncTimeEngine(start_time_us, SimWideQueueSize),
                      Event("AgentWakeupEvent", start_time_us + agent_wakeup_interval_us,
                            4, <<"all">>),
                      0).engine
  /\ prev_engine = time_engine
  /\ order_book = EmptyBook
  /\ prev_book = EmptyBook
  /\ last = NoCall
  /\ ops = 0
  /\ next_id = 1
  /\ reused = FALSE
  /\ agents = [a \in AgentIds |-> AsyncAgent(a)]
  /\ current_market_data = [timestamp |-> start_time_us]
  /\ submitted = {}
  /\ mem = InitialMem
  /\ run_loop = RunLoop(1, 1..NumHandlers)
  /\ stream = BoundedMarketDataStream(StreamMaxSize)
  /\ candle_stream = NoCandles
  /\ agent_pool = NoPool

SpecSimWide == SimWideInit /\ [][SimNext]_vars

\* ------------------------------------------------------------------------
\* SpecMem: the book operations called on any of the books returned so far,
\* with the dict objects the snapshots refer to
\* ------------------------------------------------------------------------
memFrame == <<order_book, prev_book, last, next_id, reused, time_engine,
              prev_engine, agents, current_market_data, submitted, run_loop, stream, candle_stream, agent_pool>>

MemOrders ==
  {o \in InputOrders(1..MaxMemIds) :
     o.size <= MaxMemSize /\ o.price <= MaxMemPrice /\ o.time_in_force # "DAY"}

\* a call returned: a book object other than the one it was called on joins
\* the books, with the value the operation has on the value of its input
Returned(r, from, op, was) ==
  /\ mem' = [heap |-> r.heap,
             books |-> IF r.snap = mem.books[from].snap THEN mem.books
                       ELSE Append(mem.books,
                                   [snap |-> r.snap, was |-> was,
                                    from |-> from, op |-> op])]
  /\ ops' = ops + 1
  /\ UNCHANGED memFrame

MemAddOrder ==
  /\ ops < MaxMemOps
  /\ \E i \in DOMAIN mem.books :
       \E order \in {o \in MemOrders :
                       o.order_type = "LIMIT" /\ o.time_in_force = "GTC"} :
         Returned(Mem_add_order(mem.heap, mem.books[i].snap, order), i, "add_order",
                  Book_add_order(BookOf(mem.heap, mem.books[i].snap), order))

MemRemoveOrder ==
  /\ ops < MaxMemOps
  /\ \E i \in DOMAIN mem.books : \E order_id \in 1..MaxMemIds :
       Returned(Mem_remove_order(mem.heap, mem.books[i].snap, order_id), i,
                "remove_order",
                Book_remove_order(BookOf(mem.heap, mem.books[i].snap), order_id).book)

MemUpdateOrder ==
  /\ ops < MaxMemOps
  /\ \E i \in DOMAIN mem.books : \E order_id \in 1..MaxMemIds :
       \E filled_size \in 0..MaxMemSize, status \in {"PARTIALLY_FILLED", "FILLED"} :
         Returned(Mem_update_order(mem.heap, mem.books[i].snap, order_id,
                                   filled_size, status),
                  i, "update_order",
                  Book_update_order(BookOf(mem.heap, mem.books[i].snap), order_id,
                                    filled_size, status))

MemRecordTrade ==
  /\ ops < MaxMemOps
  /\ \E i \in DOMAIN mem.books : \E price \in 1..MaxMemPrice :
       LET trade == Trade(price, 1, 1, 1, "BUY")
       IN Returned(Mem_record_trade(mem.heap, mem.books[i].snap, trade), i,
                   "record_trade",
                   Book_record_trade(BookOf(mem.heap, mem.books[i].snap), trade))

MemMatchOrder ==
  /\ ops < MaxMemOps
  /\ \E i \in DOMAIN mem.books : \E order \in MemOrders :
       Returned(Mem_match_order(mem.heap, mem.books[i].snap, order), i,
                "match_order",
                match_order(order, BookOf(mem.heap, mem.books[i].snap)).book)

MemCancelOrder ==
  /\ ops < MaxMemOps
  /\ \E i \in DOMAIN mem.books : \E order_id \in 1..MaxMemIds :
       Returned(Mem_cancel_order(mem.heap, mem.books[i].snap, order_id), i,
                "cancel_order",
                cancel_order(order_id, BookOf(mem.heap, mem.books[i].snap)).book)

MemNext ==
  \/ MemAddOrder
  \/ MemRemoveOrder
  \/ MemUpdateOrder
  \/ MemRecordTrade
  \/ MemMatchOrder
  \/ MemCancelOrder

SpecMem == Init /\ [][MemNext]_vars

\* ------------------------------------------------------------------------
\* Vocabulary of the properties
\* ------------------------------------------------------------------------
Matched == last.op = "match_order"
LastOrder == last.order[1]
LastResult == last.result[1]
Accepted == Matched /\ ~LastResult.rejected

Opposite(side) == IF side = "BUY" THEN "SELL" ELSE "BUY"

Crossed(book) ==
  /\ best_bid(book) # NoPrice
  /\ best_ask(book) # NoPrice
  /\ best_bid(book) >= best_ask(book)

RECURSIVE SumTrades(_)
SumTrades(trades) ==
  IF trades = <<>> THEN 0 ELSE Head(trades).size + SumTrades(Tail(trades))

\* open quantity as the data model defines it: size - filled_size
RECURSIVE SumOpen(_)
SumOpen(orders) ==
  IF orders = <<>> THEN 0
  ELSE (Head(orders).size - Head(orders).filled_size) + SumOpen(Tail(orders))

RECURSIVE SumOverLevels(_, _)
SumOverLevels(levels, keys) ==
  IF keys = {} THEN 0
  ELSE LET k == CHOOSE x \in keys : TRUE
       IN SumOpen(levels[k].orders) + SumOverLevels(levels, keys \ {k})

\* open quantity resting on one side of a book
OpenQuantity(book, side) ==
  SumOverLevels(LevelsOf(book, side), DOMAIN LevelsOf(book, side))

\* ------------------------------------------------------------------------
\* Properties
\* ------------------------------------------------------------------------

\* C1: after a match_order call made on a book that is not crossed, the
\* resulting book is not crossed: best_bid < best_ask whenever both exist.
NoCrossedBookAfterMatch ==
  (Matched /\ ~Crossed(prev_book)) => ~Crossed(order_book)

\* C2: every trade emitted by match_order has size > 0, also on books whose
\* resting orders were partially filled before (shown on orders that each have
\* an id of their own).
TradeSizesPositive ==
  (Matched /\ ~reused) => \A i \in 1..Len(LastResult.trades) : LastResult.trades[i].size > 0

\* C3: every trade emitted by match_order executes at the price of the level
\* the passive order rests in, and a LIMIT aggressor never trades at a price
\* worse than its limit (BUY: trade.price <= order.price; SELL: >=).
TradesAtPassiveLevelPrice ==
  Matched =>
    \A i \in 1..Len(LastResult.trades) :
      LET trade == LastResult.trades[i]
          passive == last.passives[i]
      IN /\ trade.price = passive.price
         /\ passive.side = Opposite(LastOrder.side)
         /\ LastOrder.order_type = "LIMIT" /\ LastOrder.side = "BUY"
              => trade.price <= LastOrder.price
         /\ LastOrder.order_type = "LIMIT" /\ LastOrder.side = "SELL"
              => trade.price >= LastOrder.price

\* C3 witness: a limit order traded at a passive level strictly better than
\* its own limit price.
WitnessPriceImprovement ==
  /\ Matched
  /\ LastOrder.order_type = "LIMIT"
  /\ \E i \in 1..Len(LastResult.trades) :
       /\ LastResult.trades[i].price # LastOrder.price
       /\ LastResult.trades[i].size > 0

\* C4: for every non-rejected match_order call, the sum of the trade sizes
\* equals the aggressor's filled quantity, and equals the decrease in open
\* quantity (size - filled_size) of the passive side between input and output
\* (shown on orders that each have an id of their own).
TradedQuantityConserved ==
  (Accepted /\ ~reused) =>
    /\ SumTrades(LastResult.trades) = LastResult.order.filled_size
    /\ SumTrades(LastResult.trades) =
         OpenQuantity(prev_book, Opposite(LastOrder.side))
         - OpenQuantity(order_book, Opposite(LastOrder.side))

\* C5: time priority across match_order calls: among the orders resting at
\* one price, an order that arrived earlier (smaller id, every order having
\* an id of its own) and still has open quantity is matched before any order
\* that arrived later, also after it was partially filled by an earlier match.
TimePriority ==
  (Matched /\ ~reused) =>
    \A i \in 1..Len(last.passives) :
      LET passive == last.passives[i]
          levels == LevelsOf(prev_book, passive.side)
      IN passive.price \in DOMAIN levels =>
           \A k \in 1..Len(levels[passive.price].orders) :
             LET earlier == levels[passive.price].orders[k]
             IN (/\ earlier.order_id < passive.order_id
                 /\ earlier.size - earlier.filled_size > 0)
                => \E j \in 1..(i - 1) : last.passives[j].order_id = earlier.order_id

\* strictly better price for an aggressor of the given side
Better(side, p, q) == IF side = "BUY" THEN p < q ELSE p > q

\* C6: within a match_order call a BUY consumes asks in ascending and a SELL
\* bids in descending price order, and no trade occurs at a level while a
\* strictly better level of the opposite side still holds open quantity.
PricePriority ==
  Matched =>
    LET trades == LastResult.trades
        passiveSide == LevelsOf(order_book, Opposite(LastOrder.side))
    IN /\ \A i \in 1..Len(trades) : \A j \in i..Len(trades) :
            ~Better(LastOrder.side, trades[j].price, trades[i].price)
       /\ \A i \in 1..Len(trades) : \A q \in DOMAIN passiveSide :
            Better(LastOrder.side, q, trades[i].price) =>
              \A k \in 1..Len(passiveSide[q].orders) :
                passiveSide[q].orders[k].size - passiveSide[q].orders[k].filled_size <= 0

\* C7: a FOK order (MARKET or LIMIT) is atomic: either its whole size is
\* traded, or the result is rejected with no trades and the returned book
\* equals the input book in every field, the version included.
FokAtomic ==
  (Matched /\ LastOrder.time_in_force = "FOK"
           /\ LastOrder.order_type \in {"MARKET", "LIMIT"}) =>
    \/ /\ ~LastResult.rejected
       /\ SumTrades(LastResult.trades) = LastOrder.size
    \/ /\ LastResult.rejected
       /\ LastResult.trades = <<>>
       /\ order_book = prev_book

\* C7 witness: a FOK limit order that crossed the spread, could be filled in
\* part only, and was rejected.
WitnessFokRejectedAfterCross ==
  /\ Matched
  /\ LastOrder.time_in_force = "FOK"
  /\ LastOrder.order_type = "LIMIT"
  /\ LastResult.rejected
  /\ LastOrder.side = "BUY"
  /\ best_ask(prev_book) # NoPrice
  /\ best_ask(prev_book) <= LastOrder.price

\* number of entries of the price levels of a book that carry the order id
RECURSIVE CountInLevels(_, _, _)
CountInLevels(levels, keys, order_id) ==
  IF keys = {} THEN 0
  ELSE LET k == CHOOSE x \in keys : TRUE
       IN Len(SelectSeq(levels[k].orders, LAMBDA o : o.order_id = order_id))
          + CountInLevels(levels, keys \ {k}, order_id)

RestingCount(book, order_id) ==
  CountInLevels(book.bids, DOMAIN book.bids, order_id)
  + CountInLevels(book.asks, DOMAIN book.asks, order_id)

\* C8: match_order leaves a resting order for the incoming order (one more
\* entry under its id in the price levels) only if the order is a LIMIT order
\* with TIF GTC or DAY that was not fully filled; IOC orders and MARKET orders
\* never rest.
OnlyUnfilledGtcLimitRests ==
  Matched =>
    LET rests == RestingCount(order_book, LastOrder.order_id)
                   > RestingCount(prev_book, LastOrder.order_id)
    IN /\ rests => /\ LastOrder.order_type = "LIMIT"
                   /\ LastOrder.time_in_force \in {"GTC", "DAY"}
                   /\ SumTrades(LastResult.trades) < LastOrder.size
       /\ LastOrder.time_in_force = "IOC" => ~rests
       /\ LastOrder.order_type = "MARKET" => ~rests

\* C8 witness: a limit IOC order that was filled in part and whose remainder
\* is not in the book.
WitnessIocPartialFill ==
  /\ Accepted
  /\ LastOrder.order_type = "LIMIT"
  /\ LastOrder.time_in_force = "IOC"
  /\ LastResult.trades # <<>>
  /\ SumTrades(LastResult.trades) < LastOrder.size
  /\ LastOrder.order_id \notin DOMAIN order_book.orders

\* C9: the unfilled remainder of a LIMIT GTC/DAY order rests at the order's
\* limit price as exactly one order, appended to that level, whose open
\* quantity (size - filled_size) equals order.size minus the sum of the trade
\* sizes; an order that does not cross rests with its full size (shown on
\* orders that each have an id of their own).
RemainderRestsWithOpenQuantity ==
  (Accepted /\ ~reused /\ LastOrder.order_type = "LIMIT"
            /\ LastOrder.time_in_force \in {"GTC", "DAY"}
            /\ SumTrades(LastResult.trades) < LastOrder.size) =>
    LET own == LevelsOf(order_book, LastOrder.side)
        before == LevelsOf(prev_book, LastOrder.side)
        traded == SumTrades(LastResult.trades)
    IN /\ RestingCount(order_book, LastOrder.order_id)
            = RestingCount(prev_book, LastOrder.order_id) + 1
       /\ LastOrder.price \in DOMAIN own
       /\ LET queue == own[LastOrder.price].orders
              rest == queue[Len(queue)]
          IN /\ rest.order_id = LastOrder.order_id
             /\ rest.size - rest.filled_size = LastOrder.size - traded
             /\ LastResult.trades = <<>> => rest.size = LastOrder.size

\* C10: every rejected MatchResult carries no trades and no remaining order
\* and comes with the input book, so that the orchestrator's book is what it
\* was before the order was handled.
RejectedLeavesBook ==
  (Matched /\ LastResult.rejected) =>
    /\ LastResult.trades = <<>>
    /\ LastResult.remaining_order = <<>>
    /\ order_book = prev_book

\* C10 witness: a FOK market order rejected although the opposite side held
\* liquidity it had started to consume.
WitnessMarketFokRejected ==
  /\ Matched
  /\ LastResult.rejected
  /\ LastOrder.order_type = "MARKET"
  /\ LastResult.rejection_reason = "FOK not fully filled"
  /\ OpenQuantity(prev_book, Opposite(LastOrder.side)) > 0

\* C11 vocabulary: every level's total_size is the open quantity of its orders
LevelTotalsOk(book) ==
  \A side \in Side : \A p \in DOMAIN LevelsOf(book, side) :
    LevelsOf(book, side)[p].total_size = SumOpen(LevelsOf(book, side)[p].orders)

\* C11: each price level's total_size equals the sum of (size - filled_size)
\* over the orders of the level; shown on a match_order call made on a book
\* where this holds, every order having an id of its own.
LevelTotalIsOpenQuantity ==
  (Matched /\ ~reused /\ LevelTotalsOk(prev_book)) => LevelTotalsOk(order_book)

\* entries of the levels of one side at one price that carry the order id
EntriesAt(book, side, price, order_id) ==
  IF price \in DOMAIN LevelsOf(book, side)
  THEN Len(SelectSeq(LevelsOf(book, side)[price].orders,
                     LAMBDA e : e.order_id = order_id))
  ELSE 0

\* C12 vocabulary: the orders map and the price levels agree
BookConsistent(book) ==
  /\ \A id \in DOMAIN book.orders :
       LET o == book.orders[id]
       IN /\ RestingCount(book, id) = 1
          /\ EntriesAt(book, o.side, o.price, id) = 1
  /\ \A side \in Side : \A p \in DOMAIN LevelsOf(book, side) :
       LET level == LevelsOf(book, side)[p]
       IN /\ level.orders # <<>>
          /\ \A k \in 1..Len(level.orders) :
               /\ level.orders[k].order_id \in DOMAIN book.orders
               /\ book.orders[level.orders[k].order_id] = level.orders[k]
               /\ level.orders[k].side = side
               /\ level.orders[k].price = p

\* C12: whatever order ids the submitted orders carry, the orders map and the
\* price levels agree: every order of the map appears exactly once, in the
\* level of its side and price, every level entry is in the map, and no level
\* is empty; shown on a match_order call made on a book where this holds.
MapAndLevelsAgree ==
  (Matched /\ BookConsistent(prev_book)) => BookConsistent(order_book)

\* C13: the version strictly increases on every call that changes the book
\* (add_order, remove_order and update_order of a known id, record_trade), is
\* left unchanged by remove_order, update_order and cancel_order of an unknown
\* id, and never decreases from one book of the orchestrator to the next.
VersionIncreasesOnMutation ==
  /\ order_book.version >= prev_book.version
  /\ last.op \in {"add_order", "record_trade"} =>
       order_book.version > prev_book.version
  /\ last.op \in {"remove_order", "update_order", "cancel_order"} =>
       IF last.order_id \in DOMAIN prev_book.orders
       THEN order_book.version > prev_book.version
       ELSE order_book.version = prev_book.version

\* C13 witness: update_order re-added a known order: one version for the
\* removal and one for the addition.
WitnessUpdateBumpsVersionTwice ==
  /\ last.op = "update_order"
  /\ last.order_id \in DOMAIN prev_book.orders
  /\ last.order_id \in DOMAIN order_book.orders
  /\ order_book.version = prev_book.version + 2

\* C15: in every trade of a match_order call, buy_order_id is the id of the
\* BUY-side order and sell_order_id the id of the SELL-side order of the match
\* (the aggressor and the passive order; every order has an id of its own).
TradeIdsNameBuyerAndSeller ==
  (Matched /\ ~reused) =>
    \A i \in 1..Len(LastResult.trades) :
      LET trade == LastResult.trades[i]
          passive == last.passives[i]
      IN /\ trade.buy_order_id =
              IF LastOrder.side = "BUY" THEN LastOrder.order_id ELSE passive.order_id
         /\ trade.sell_order_id =
              IF LastOrder.side = "SELL" THEN LastOrder.order_id ELSE passive.order_id

\* C16: after a match_order call, a passive order that was filled in part and
\* still has open quantity is stored with status PARTIALLY_FILLED, and a
\* passive order that was filled completely is no longer in the book (every
\* order has an id of its own).
PartialFillStoredAsPartiallyFilled ==
  (Matched /\ ~reused) =>
    \A i \in 1..Len(last.passives) :
      LET passive == last.passives[i]
          trade == LastResult.trades[i]
          id == passive.order_id
      IN /\ passive.filled_size + trade.size >= passive.size =>
              id \notin DOMAIN order_book.orders
         /\ (/\ trade.size > 0
             /\ id \in DOMAIN order_book.orders
             /\ order_book.orders[id].size - order_book.orders[id].filled_size > 0)
            => order_book.orders[id].status = "PARTIALLY_FILLED"

\* C17: round trip: remove_order(o.order_id) applied to the book add_order(o)
\* returned gives the orders map and the price levels, queues included, of the
\* book add_order was called on.
AddThenRemoveRestores ==
  last.op = "add_order" =>
    LET back == Book_remove_order(order_book, last.order_id).book
    IN /\ back.orders = prev_book.orders
       /\ back.bids = prev_book.bids
       /\ back.asks = prev_book.asks

\* the order is an entry of some level of the book
InSomeLevel(book, order) ==
  \E side \in Side : \E p \in DOMAIN LevelsOf(book, side) :
    \E k \in 1..Len(LevelsOf(book, side)[p].orders) :
      LevelsOf(book, side)[p].orders[k] = order

\* C18: cancel_order of an id the book does not know returns the same book
\* and no order; of a known id it returns a book without the order in the map
\* and in the levels (no empty level is left) and a copy of the order with
\* status CANCELLED.  On a book whose map and levels agree nothing is left
\* under the id and they agree afterwards.
CancelOrderContract ==
  last.op = "cancel_order" =>
    IF last.order_id \notin DOMAIN prev_book.orders
    THEN /\ order_book = prev_book
         /\ last.cancelled = <<>>
    ELSE LET order == prev_book.orders[last.order_id]
         IN /\ last.order_id \notin DOMAIN order_book.orders
            /\ ~InSomeLevel(order_book, order)
            /\ \A side \in Side : \A p \in DOMAIN LevelsOf(order_book, side) :
                 LevelsOf(order_book, side)[p].orders # <<>>
            /\ last.cancelled = <<[order EXCEPT !.status = "CANCELLED"]>>
            /\ BookConsistent(prev_book) =>
                 /\ RestingCount(order_book, last.order_id) = 0
                 /\ BookConsistent(order_book)

\* C18 witness: the only order of a level was cancelled and the level is gone.
WitnessCancelDropsLevel ==
  /\ last.op = "cancel_order"
  /\ last.cancelled # <<>>
  /\ last.cancelled[1].status = "CANCELLED"
  /\ last.cancelled[1].price \in DOMAIN LevelsOf(prev_book, last.cancelled[1].side)
  /\ last.cancelled[1].price \notin DOMAIN LevelsOf(order_book, last.cancelled[1].side)

\* C20: the number of queued events never exceeds max_queue_size;
\* schedule_event on a queue at capacity returns false, adds exactly 1 to
\* events_dropped and leaves the queue and events_scheduled unchanged;
\* otherwise it returns true and enqueues exactly one event.
QueueBackpressure ==
  /\ Cardinality(time_engine.event_queue) <= time_engine.max_queue_size
  /\ last.op = "schedule_event" =>
       IF Cardinality(prev_engine.event_queue) >= prev_engine.max_queue_size
       THEN /\ ~last.returned
            /\ time_engine.stats.events_dropped = prev_engine.stats.events_dropped + 1
            /\ time_engine.event_queue = prev_engine.event_queue
            /\ time_engine.stats.events_scheduled = prev_engine.stats.events_scheduled
       ELSE /\ last.returned
            /\ prev_engine.event_queue \subseteq time_engine.event_queue
            /\ Cardinality(time_engine.event_queue)
                 = Cardinality(prev_engine.event_queue) + 1
            /\ \E entry \in time_engine.event_queue \ prev_engine.event_queue :
                 entry[4] = last.event[1]
            /\ time_engine.stats.events_scheduled
                 = prev_engine.stats.events_scheduled + 1
            /\ time_engine.stats.events_dropped = prev_engine.stats.events_dropped

\* C20 witness: an event was dropped on a full queue after an earlier drop.
WitnessEventDropped ==
  /\ last.op = "schedule_event"
  /\ ~last.returned
  /\ Cardinality(prev_engine.event_queue) = MaxQueueSize
  /\ time_engine.stats.events_dropped = 2

\* C19: no book operation mutates its input: every book returned so far by
\* add_order, remove_order, update_order, record_trade, match_order or
\* cancel_order still has the bids, asks, orders map, version and
\* last_trade_price it was returned with, whatever was called on it since,
\* also on books derived from a snapshot of record_trade.
InputBooksUnchanged ==
  \A i \in DOMAIN mem.books :
    BookOf(mem.heap, mem.books[i].snap) = mem.books[i].was

\* the dict objects two snapshots have in common
SharedObjects(a, b) ==
  {a.bids, a.asks, a.orders} \cap {b.bids, b.asks, b.orders}

\* C19 witness: a book returned by record_trade shares its dict objects with
\* the book it was called on, and add_order was then called on it and returned
\* a book with other entries.
WitnessWriteAfterRecordTrade ==
  \E j \in DOMAIN mem.books :
    /\ mem.books[j].op = "add_order"
    /\ LET i == mem.books[j].from
       IN /\ mem.books[i].op = "record_trade"
          /\ SharedObjects(mem.books[i].snap, mem.books[mem.books[i].from].snap) # {}
          /\ mem.books[j].was.orders # mem.books[i].was.orders
          /\ mem.books[mem.books[i].from].was.orders # EmptyMap

RECURSIVE SumPositions(_, _)
SumPositions(pool, ids) ==
  IF ids = {} THEN 0
  ELSE LET a == CHOOSE x \in ids : TRUE
       IN pool[a].position + SumPositions(pool, ids \ {a})

\* C14: position conservation: after any sequence of wakeup, order and trade
\* events handled by the orchestrator the positions of the agents sum to 0
\* (shown on runs where every generated order has an id of its own).
PositionsSumToZero == ~reused => SumPositions(agents, DOMAIN agents) = 0

\* the events the run loop has taken from the queue so far, the one being
\* handled included
Taken ==
  run_loop.dispatched \o
    (IF run_loop.pc \in {"sleeping", "dispatching"} THEN run_loop.popped ELSE <<>>)

\* b was in the queue when a was popped
QueuedAtPopOf(a, b) == b.entry[3] < a.event_counter

VirtualTimeNeverMovesBackward ==
  /\ \A i, j \in DOMAIN run_loop.dispatched :
       i < j => run_loop.dispatched[i].time <= run_loop.dispatched[j].time
  /\ \A i \in DOMAIN run_loop.dispatched :
       /\ run_loop.dispatched[i].time = run_loop.dispatched[i].entry[1]
       /\ run_loop.dispatched[i].time <= time_engine.current_time_us

\* C23: pause gate: the engine starts resumed, and every event is popped
\* while the gate is open, that is, not between a pause() and the next
\* resume().
NoPopWhilePaused ==
  /\ (run_loop.pc = "init" /\ last.op = "init") => run_loop.paused_is_set
  /\ \A i \in DOMAIN Taken : Taken[i].gate

\* C24: a handler that raises does not abort the run loop: for every event
\* dispatched, every handler registered for it has run, whichever of them
\* raised; the event is counted in events_processed; and run() ends only on
\* an empty queue, with every scheduled event dispatched and counted.
HandlerErrorsDoNotAbort ==
  /\ \A i \in DOMAIN run_loop.dispatched :
       run_loop.dispatched[i].ran = 1..NumHandlers
  /\ run_loop.pc \in {"done", "failed"} =>
       /\ time_engine.event_queue = {}
       /\ time_engine.stats.events_processed = time_engine.stats.events_scheduled

\* C25: agent wakeups are periodic in virtual time: the wakeup that the
\* handler of a wakeup dispatched at time ts schedules is queued for
\* ts + agent_wakeup_interval_us, and therefore no order event is waiting in
\* the queue when a wakeup is dispatched.
WakeupsArePeriodic ==
  last.op = "wakeup" =>
    /\ \A e \in time_engine.event_queue :
         e[4].kind = "AgentWakeupEvent" =>
           e[1] = time_engine.current_time_us + agent_wakeup_interval_us
    /\ \A e \in prev_engine.event_queue : e[4].kind # "OrderEvent"

\* an event was dispatched by the last step of the orchestrator
Dispatched == last.op \in {"wakeup", "match_order", "trade"} /\ last.event # <<>>

\* C26: at identical timestamps trade events (priority 2) precede order
\* events (priority 3), which precede wakeups (priority 4): a queued trade
\* event carries the timestamp of the order handler that produced it, that
\* handler has run, and no order event is handled while a trade event of
\* that timestamp waits in the queue.
TradesBeforeOrdersBeforeWakeups ==
  /\ \A e \in time_engine.event_queue :
       /\ e[4].kind = "TradeEvent" =>
            e[4].priority = 2 /\ e[1] = time_engine.current_time_us
       /\ e[4].kind = "OrderEvent" => e[4].priority = 3
       /\ e[4].kind = "AgentWakeupEvent" => e[4].priority = 4
  /\ Dispatched =>
       \A e \in prev_engine.event_queue :
         e[1] = time_engine.current_time_us =>
           e[4].priority >= last.event[1].priority
  /\ (Dispatched /\ last.op = "match_order") =>
       \A e \in prev_engine.event_queue :
         e[4].kind = "TradeEvent" => e[1] > time_engine.current_time_us

\* C26 witness: a trade event was handled while an order event that had been
\* scheduled before it waited in the queue at the same timestamp.
WitnessTradeOvertakesOrder ==
  /\ last.op = "trade"
  /\ \E e \in time_engine.event_queue :
       e[4].kind = "OrderEvent" /\ e[1] = time_engine.current_time_us


\* ------------------------------------------------------------------------
\* Claims on the stream (SpecStream, SpecStreamLive)
\* ------------------------------------------------------------------------
Range(seq) == {seq[i] : i \in 1..Len(seq)}

Increasing(seq) == \A i, j \in 1..Len(seq) : i < j => seq[i] < seq[j]

\* the items of a subscriber queue, without the end marker
Items(seq) == SelectSeq(seq, LAMBDA x : x # EndMarker)

\* C27: a publish on a main queue that holds maxsize items returns failure,
\* adds exactly 1 to messages_dropped, leaves messages_published, the queued
\* items and the subscriptions as they were; the queued items stay in
\* publish order and a message whose publish failed never reaches a queue or
\* a subscriber.
BackpressureDropsOnlyTheNewItem ==
  /\ (last.op = "publish" /\ Len(last.stream_before[1].queue) = stream.maxsize) =>
       LET before == last.stream_before[1]
       IN /\ last.returned = FALSE
          /\ stream.stats.messages_dropped = before.stats.messages_dropped + 1
          /\ stream.stats.messages_published = before.stats.messages_published
          /\ stream.queue = before.queue
          /\ stream.subscriptions = before.subscriptions
  /\ Increasing(stream.queue)
  /\ \A m \in stream.rejected :
       /\ m \notin Range(stream.queue)
       /\ \A sub \in 1..NumSubscribers :
            LET own == stream.subscriptions[sub]
            IN m \notin Range(own.queue) \cup Range(own.received)
                          \cup own.missed \cup {own.held}

\* the third publish failed on a full queue and a subscriber has then been
\* given the two items queued before it, in order
WitnessQueuedItemsSurviveDrop ==
  /\ stream.rejected = {StreamMaxSize + 1}
  /\ stream.stats.messages_dropped = 1
  /\ \E sub \in 1..NumSubscribers :
       stream.subscriptions[sub].received = [i \in 1..StreamMaxSize |-> i]

\* the accepted messages that were published after the subscription sub
AcceptedSince(sub) ==
  {m \in 1..stream.calls :
     m \notin stream.rejected /\ m > stream.subscriptions[sub].since}

\* nothing is on its way: the main queue and the subscriber queues are empty
\* and no forwarder holds an item
Quiescent ==
  /\ stream.queue = <<>>
  /\ \A sub \in 1..NumSubscribers :
       /\ stream.subscriptions[sub].queue = <<>>
       /\ stream.subscriptions[sub].forwarder # "holding"

\* C28: with two or more subscribers of an open stream, once nothing is on
\* its way any more, every subscriber has received every message that was
\* accepted after it subscribed, except those given up because its own
\* queue was full.
EveryMessageReachesEverySubscriber ==
  (Quiescent /\ stream.closed = <<>>) =>
    \A sub \in 1..NumSubscribers :
      stream.subscriptions[sub].state = "reading" =>
        AcceptedSince(sub) \subseteq
          Range(stream.subscriptions[sub].received)
            \cup stream.subscriptions[sub].missed

\* C29: for every subscriber, the items received followed by the items in
\* its queue are in strictly increasing publish order: a subsequence of the
\* publish sequence, without repetition.
SubscriberSeesPublishOrder ==
  \A sub \in 1..NumSubscribers :
    LET own == stream.subscriptions[sub]
    IN /\ Increasing(own.received \o Items(own.queue))
       /\ Range(own.received) \subseteq 1..stream.calls

\* a subscriber has received the first and the third message and not the
\* second
WitnessSubscriberReceivedInOrder ==
  \E sub \in 1..NumSubscribers :
    stream.subscriptions[sub].received = <<1, 3>>

\* C30: after close(), every subscriber that was subscribed at that moment
\* eventually reaches end-of-sequence.
CloseEndsEverySubscriber ==
  \A sub \in 1..NumSubscribers :
    (stream.closed # <<>> /\ sub \in stream.closed[1])
      ~> (stream.subscriptions[sub].state = "ended")

\* close() found room in the queue of a subscriber, which then ended
WitnessSubscriberEndedByClose ==
  \E sub \in 1..NumSubscribers :
    /\ stream.closed # <<>>
    /\ sub \in stream.closed[1]
    /\ stream.subscriptions[sub].state = "ended"


\* ------------------------------------------------------------------------
\* SpecCandle: a CandleStream fed with trades
\* ------------------------------------------------------------------------
MaxTrades == 3      \* number of update_from_trade calls made in SpecCandle
MaxCandlePrice == 3 \* trade prices are 1..MaxCandlePrice
MaxCandleSize == 2  \* trade sizes are 1..MaxCandleSize

\* the lists of timeframes a stream is built with
CandleTimeframes ==
  {<<Tag(5, "s"), Tag(1, "m")>>, <<Tag(1, "s"), Tag(5, "m")>>, <<Tag(1, "h")>>}

\* the times of the trades: 0 s, 0.1 s, 0.4 s, 6 s, 1 h and 12:34:56.789
CandleTimes ==
  {Time(0, 0), Time(0, 100000), Time(0, 400000), Time(6, 0), Time(3600, 0),
   Time(45296, 789000)}

CandleTrades ==
  [price : 1..MaxCandlePrice, size : 1..MaxCandleSize, timestamp : CandleTimes]

candleFrame ==
  <<order_book, prev_book, last, ops, next_id, reused, time_engine, prev_engine,
    agents, current_market_data, submitted, mem, run_loop, stream, agent_pool>>

CandleInit ==
  /\ order_book = EmptyBook
  /\ prev_book = EmptyBook
  /\ last = NoCall
  /\ ops = 0
  /\ next_id = 1
  /\ reused = FALSE
  /\ time_engine = SimulationTimeEngine
  /\ prev_engine = SimulationTimeEngine
  /\ agents = [a \in AgentIds |-> AsyncAgent(a)]
  /\ current_market_data = [timestamp |-> start_time_us]
  /\ submitted = {}
  /\ mem = InitialMem
  /\ run_loop = RunLoop(1, 1..NumHandlers)
  /\ stream = BoundedMarketDataStream(StreamMaxSize)
  /\ candle_stream \in {CandleStream(timeframes, CandleMaxSize) :
                          timeframes \in CandleTimeframes}
  /\ agent_pool = NoPool

\* update_from_trade(trade)
UpdateFromTrade ==
  /\ Len(candle_stream.fed) < MaxTrades
  /\ \E trade \in CandleTrades :
       candle_stream' = update_from_trade(candle_stream, trade)
  /\ UNCHANGED candleFrame

CandleNext == UpdateFromTrade

SpecCandle == CandleInit /\ [][CandleNext]_vars

\* ------------------------------------------------------------------------
\* SpecPool: the agent pool of a simulation under add_agent, remove_agent
\* and wakeup cycles
\* ------------------------------------------------------------------------
MaxPoolCalls == 3 \* number of add_agent and remove_agent calls and wakeup cycles

\* n agents of a class, with the ids <<prefix, 1>> to <<prefix, n>>
Members(cls, prefix, n) == [k \in 1..n |-> PoolAgent(cls, <<prefix, k>>)]

\* the lists of agents a simulation is built with: two agents, an identical
\* population with and without a batch config next to one other agent, and
\* one population for each of the larger strategies
PoolPopulations ==
  {Members("MarketMakerAgent", "mm", 1) \o Members("NoiseTraderAgent", "nt", 1),
   Members("MarketMakerAgent", "mm", 1)
     \o Members("NoiseTraderAgent", "nt", IdenticalMinCount),
   Members("MarketMakerAgent", "mm", IdenticalMinCount)
     \o Members("NoiseTraderAgent", "nt", 1),
   Members("MarketMakerAgent", "mm", 1)
     \o Members("NoiseTraderAgent", "nt", HybridBatchedMinIdentical),
   Members("NoiseTraderAgent", "nt", StatisticalMinTotal)}

poolFrame ==
  <<order_book, prev_book, last, ops, next_id, reused, time_engine, prev_engine,
    agents, current_market_data, submitted, mem, run_loop, stream, candle_stream>>

PoolInit ==
  /\ order_book = EmptyBook
  /\ prev_book = EmptyBook
  /\ last = NoCall
  /\ ops = 0
  /\ next_id = 1
  /\ reused = FALSE
  /\ time_engine = SimulationTimeEngine
  /\ prev_engine = SimulationTimeEngine
  /\ agents = [a \in AgentIds |-> AsyncAgent(a)]
  /\ current_market_data = [timestamp |-> start_time_us]
  /\ submitted = {}
  /\ mem = InitialMem
  /\ run_loop = RunLoop(1, 1..NumHandlers)
  /\ stream = BoundedMarketDataStream(StreamMaxSize)
  /\ candle_stream = NoCandles
  /\ agent_pool \in {SimulationAgentPool(population, enable_batching) :
                       population \in PoolPopulations, enable_batching \in BOOLEAN}

\* the ids remove_agent is called with: the first and the last agent of the
\* list, and an id no agent has
RemoveIds ==
  LET current == agent_pool.lists[agent_pool.agents]
  IN {<<"nobody", 0>>}
       \cup (IF current = <<>> THEN {}
             ELSE {current[1].agent_id, current[Len(current)].agent_id})

AddAgent ==
  /\ agent_pool.calls < MaxPoolCalls
  /\ \E agent_type \in AgentTypes : agent_pool' = add_agent(agent_pool, agent_type)
  /\ UNCHANGED poolFrame

RemoveAgent ==
  /\ agent_pool.calls < MaxPoolCalls
  /\ \E agent_id \in RemoveIds : agent_pool' = remove_agent(agent_pool, agent_id)
  /\ UNCHANGED poolFrame

\* a wakeup event is dispatched
PoolWakeup ==
  /\ agent_pool.calls < MaxPoolCalls
  /\ agent_pool' = pool_wakeup(agent_pool)
  /\ UNCHANGED poolFrame

PoolNext == AddAgent \/ RemoveAgent \/ PoolWakeup

SpecPool == PoolInit /\ [][PoolNext]_vars

\* ------------------------------------------------------------------------
\* Claims on the control of the run loop (SpecControl, SpecControlLive)
\* ------------------------------------------------------------------------
\* C31: once stop() has been called while run() is under way, run()
\* eventually returns, whatever the state of the pause gate.
StopEndsRun ==
  run_loop.stopped ~> (run_loop.pc \in {"done", "failed"})

\* C38: run() never pops from an empty queue: whatever pause(), resume(),
\* clear_queue() and stop() calls are made while the loop is suspended, run()
\* does not end by the IndexError of heappop.
NeverPopsFromEmptyQueue == run_loop.error # "IndexError"

\* C40: with a time limit, no event queued for a time after the limit is
\* dispatched, and run() returns only on an empty queue, at or after the
\* limit, or after stop().
RunHonoursLimit ==
  /\ run_loop.until_time_us # NoLimit =>
       \A i \in 1..Len(run_loop.dispatched) :
         run_loop.dispatched[i].entry[1] <= run_loop.until_time_us
  /\ run_loop.pc = "done" =>
       \/ time_engine.event_queue = {}
       \/ run_loop.stopped
       \/ /\ run_loop.until_time_us # NoLimit
          /\ time_engine.current_time_us >= run_loop.until_time_us


\* C37: the wakeup chain survives backpressure: between two dispatches of a
\* running simulation (the queue is not empty, so run() goes on) a wakeup
\* event is waiting in the queue, also after schedule_event has dropped
\* events on a full queue.
WakeupChainSurvives ==
  time_engine.event_queue # {} =>
    \E entry \in time_engine.event_queue : entry[4].kind = "AgentWakeupEvent"

\* ------------------------------------------------------------------------
\* Claims on the candle stream (SpecCandle)
\* ------------------------------------------------------------------------
TimeLess(a, b) == a.s < b.s \/ (a.s = b.s /\ a.us < b.us)

LastTrade == candle_stream.fed[Len(candle_stream.fed)]

\* C35: boundary alignment: on every timeframe, the start of the candle a
\* trade was assigned to is a multiple of the timeframe's interval I and
\* start <= ts < start + I holds for the trade's timestamp ts.
BoundaryAlignment ==
  candle_stream.fed # <<>> =>
    \A i \in DOMAIN candle_stream.timeframes :
      LET interval_seconds == parse_timeframe(candle_stream.timeframes[i])
          start == candle_stream.current_candles[i][1].timestamp
          ts == LastTrade.timestamp
      IN /\ start.us = 0
         /\ start.s % interval_seconds = 0
         /\ start.s <= ts.s
         /\ ts.s < start.s + interval_seconds

\* C32: candle rollup: on every timeframe a closing publish is immediately
\* followed by the opening publish of a new candle made of the trade alone
\* (o = h = l = c = price, volume = size, count = 1) with a timestamp
\* greater than the closed candle's, and the published candle changes its
\* start only through a closing publish.
CandleRollup ==
  \A i \in DOMAIN candle_stream.timeframes :
    LET log == candle_stream.published[i]
    IN \A k \in 1..Len(log) :
         /\ log[k].is_closed =>
              /\ k < Len(log)
              /\ ~log[k + 1].is_closed
              /\ log[k + 1].candle.trade_count = 1
              /\ log[k + 1].candle.high = log[k + 1].candle.open
              /\ log[k + 1].candle.low = log[k + 1].candle.open
              /\ log[k + 1].candle.close = log[k + 1].candle.open
              /\ TimeLess(log[k].candle.timestamp, log[k + 1].candle.timestamp)
              /\ k + 1 = Len(log) =>
                   /\ log[k + 1].candle.open = LastTrade.price
                   /\ log[k + 1].candle.volume = LastTrade.size
         /\ (k < Len(log) /\ log[k].candle.timestamp # log[k + 1].candle.timestamp)
              => log[k].is_closed

\* C33: on every timeframe the sequence_id values of the published items
\* are strictly increasing in publish order, whatever the kind of publish
\* and whatever the other timeframes published.
SequenceIdsIncrease ==
  \A i \in DOMAIN candle_stream.timeframes :
    LET log == candle_stream.published[i]
    IN \A k \in 1..Len(log) :
         /\ log[k].sequence_id >= 1
         /\ k < Len(log) => log[k].sequence_id < log[k + 1].sequence_id

\* a timeframe that published an opening, a live update and a closing,
\* next to a timeframe that published fewer items
WitnessAllKindsPublished ==
  \E i, j \in DOMAIN candle_stream.timeframes :
    LET log == candle_stream.published[i]
    IN /\ Len(candle_stream.published[j]) < Len(log)
       /\ \E k \in 1..Len(log) : log[k].is_closed
       /\ \E k \in 1..Len(log) : ~log[k].is_closed /\ log[k].candle.trade_count = 1
       /\ \E k \in 1..Len(log) : ~log[k].is_closed /\ log[k].candle.trade_count > 1

RECURSIVE SumOfSizes(_)
SumOfSizes(trades) ==
  IF trades = <<>> THEN 0
  ELSE trades[1].size + SumOfSizes(Tail(trades))

TradePrices(trades) == {trades[k].price : k \in 1..Len(trades)}

\* the candle made of a list of trades
Aggregate(trades, timestamp, tf) ==
  Candle(timestamp, trades[1].price,
         CHOOSE p \in TradePrices(trades) : \A q \in TradePrices(trades) : q <= p,
         CHOOSE p \in TradePrices(trades) : \A q \in TradePrices(trades) : p <= q,
         trades[Len(trades)].price, SumOfSizes(trades), Len(trades), tf)

TradesInOrder ==
  \A k \in 1..(Len(candle_stream.fed) - 1) :
    ~TimeLess(candle_stream.fed[k + 1].timestamp, candle_stream.fed[k].timestamp)

\* C34: a candle published closed aggregates exactly the trades assigned to
\* it: open and close are the prices of the first and the last of them, high
\* and low the maximum and minimum of their prices, volume the sum of their
\* sizes, trade_count their number, throttled trades included; the trades
\* assigned to it are trades of its window, and all of them when the trades
\* arrive in the order of their timestamps.
ClosedCandleAggregatesItsTrades ==
  \A i \in DOMAIN candle_stream.timeframes :
    LET tf == candle_stream.timeframes[i]
        log == candle_stream.published[i]
        closed == candle_stream.closed[i]
    IN /\ Len(closed) = Len(SelectSeq(log, LAMBDA data : data.is_closed))
       /\ \A k \in 1..Len(closed) :
            LET candle == closed[k].data.candle
                trades == closed[k].trades
            IN /\ closed[k].data = SelectSeq(log, LAMBDA data : data.is_closed)[k]
               /\ trades # <<>>
               /\ candle = Aggregate(trades, candle.timestamp, tf)
               /\ candle.low <= candle.open /\ candle.open <= candle.high
               /\ candle.low <= candle.close /\ candle.close <= candle.high
               /\ \A n \in 1..Len(trades) :
                    get_candle_start_time(trades[n].timestamp, tf) = candle.timestamp
               /\ TradesInOrder =>
                    trades = SelectSeq(candle_stream.fed,
                               LAMBDA trade :
                                 get_candle_start_time(trade.timestamp, tf)
                                   = candle.timestamp)

\* a candle closed with two trades, the second of which moved its high and
\* was never published as a live update
WitnessThrottledTradeInClosedCandle ==
  \E i \in DOMAIN candle_stream.timeframes :
    \E k \in 1..Len(candle_stream.closed[i]) :
      LET candle == candle_stream.closed[i][k].data.candle
          log == candle_stream.published[i]
      IN /\ candle.trade_count = 2
         /\ candle.high > candle.open
         /\ \A n \in 1..Len(log) :
              log[n].candle.trade_count = 2 => log[n].is_closed

\* ------------------------------------------------------------------------
\* Claims on the agent pool (SpecPool)
\* ------------------------------------------------------------------------
CurrentAgents == agent_pool.lists[agent_pool.agents]

\* the batch generator of a wakeup cycle covers the class
Batched(cls) == \E config \in agent_pool.batch : config.name = Lower(cls)

\* C36: in the hybrid strategies every agent the pool was built with is
\* covered by exactly one execution path: in a wakeup cycle either its
\* class is replaced by a batch generator or the agent is invoked
\* individually, whatever the member count of its class.
EveryAgentCoveredOnce ==
  (/\ agent_pool.batched
   /\ agent_pool.strategy \in {"hybrid_batched", "hybrid_balanced"}
   /\ agent_pool.cycled
   /\ agent_pool.agents = 1
   /\ agent_pool.added = {})
    => \A k \in 1..Len(CurrentAgents) :
         Batched(CurrentAgents[k].cls)
           # (CurrentAgents[k].agent_id \in agent_pool.invoked)

\* an agent takes part in the last wakeup cycle: it is invoked, or its class
\* is replaced by a batch generator that counts the members the class has now
TakesPart(agent) ==
  \/ agent.agent_id \in agent_pool.invoked
  \/ \E config \in agent_pool.batch :
       /\ config.name = Lower(agent.cls)
       /\ config.count = CountOfClass(CurrentAgents, agent.cls)

\* C39: in a wakeup cycle after remove_agent returned True the removed agent
\* is not invoked and no batch counts it, and every agent add_agent returned
\* an id for takes part, under the plain pool and under the batched pool in
\* each of its strategies.
RemovedAndAddedAgentsAreHonoured ==
  agent_pool.cycled =>
    /\ \A agent \in agent_pool.removed :
         /\ agent.agent_id \notin agent_pool.invoked
         /\ \A config \in agent_pool.batch :
              config.name = Lower(agent.cls) =>
                config.count <= CountOfClass(CurrentAgents, agent.cls)
    /\ \A k \in 1..Len(CurrentAgents) :
         CurrentAgents[k].agent_id \in agent_pool.added => TakesPart(CurrentAgents[k])

====
